---- MODULE Spec2Model ----
(***************************************************************************)
(* Model of the asio-grpc execution engine (GrpcContextImplementation),    *)
(* of the auto-cancelling client context reference and of the client call  *)
(* state machine built on it.                                              *)
(*                                                                         *)
(* Engine part: one thread runs the engine (the runner), other threads     *)
(* (producers) submit work through the atomic remote queue and the         *)
(* transport reports finished steps through the completion queue.          *)
(***************************************************************************)
EXTENDS Integers, Sequences, FiniteSets, TLC

(* ------------------------------ bounds --------------------------------- *)
\* Number of operations that can be submitted over one behaviour.
MaxOps == 3
\* Number of continuations on the stack that have called run() again.
MaxDepth == 1
\* Number of foreign threads that submit work.
NumProducers == 2
\* Number of call-context reference objects and of client contexts.
NumRefs == 2
NumCtx == 2
\* Number of explicit cancel() calls over one behaviour.
MaxCancels == 1
\* Number of steps the caller starts on one client call.
MaxSteps == 4
\* Number of handlers emplaced into one type-erased completion handler, and
\* of calls each thread makes on it.
MaxHandlers == 2
MaxCalls == 2
\* Number of messages a server writes on a stream, and of distinct payloads.
MaxMsgs == 1
NumPayloads == 2

Ops == 1..MaxOps
Producers == 1..NumProducers

\* Thread identities: producer p is thread p, the thread that calls run() is
\* the one after them, and NoThread stands for "no thread yet".
Runner == NumProducers + 1
NoThread == NumProducers + 2

\* The threads that submit work from outside the run loop: the producers,
\* and the thread that calls run() while it is not inside run().
Threads == Producers \cup {Runner}

(* ------------------------------ state ---------------------------------- *)
VARIABLES
    local_work_queue,       \* GrpcContext::local_work_queue_ (FIFO of ops)
    pass_queue,             \* the local `queue` of process_local_queue
    remote_work_queue,      \* GrpcContext::remote_work_queue_, enqueue order
    remote_active,          \* the remote queue's active/inactive marker
    check_remote_work,      \* GrpcContext::check_remote_work_
    outstanding_work,       \* GrpcContext::outstanding_work_
    stopped,                \* GrpcContext::stopped_
    shutdown,               \* GrpcContext::shutdown_
    notify_when_done_list,  \* GrpcContext::notify_when_done_list_
    cq_alarm,               \* wake-tag events waiting in the completion queue
    op,                     \* per operation: how it was submitted, its event,
                            \* and the record of its dispatch
    pc,                     \* where the runner thread is
    invoke,                 \* the InvokeHandler argument of the running loop
    processed,              \* the local `processed` of do_one
    thread_local_grpc_context, \* the runner's thread-local owner marker
    old_context,            \* ThreadLocalGrpcContextGuard::old_context_ of run()
    frames,                 \* continuations on the stack that called run() again
    prod,                   \* where each producer is
    run_exit,               \* how the last run() call ended
    work_started_calls,     \* number of work_started() calls so far
    work_finished_calls,    \* number of work_finished() calls so far
    guard,                  \* a StartWorkAndGuard object some thread holds
    \* --- call-context references (AutoCancelClientContextRef objects) ---
    ref,                    \* per object: its lifetime and its context_ value
    try_cancel,             \* per context: TryCancel calls, by their origin
    ref_last,               \* the operation performed last on the references
    \* --- one client call (a high-level client RPC object) ---
    rpc,                    \* the call: its context reference, status, shape
    slot,                   \* per role: the step in flight and its resumption
    wire,                   \* the transport: Finish steps issued, final status
    call_obs,               \* per role: what its caller saw when resumed last
    finish_log,             \* the results of the finish() calls, in order
    \* --- one AtomicTypeErasedCompletionHandler and the threads using it ---
    completion_handler,     \* BasicTypeErasedCompletionHandler::completion_handler
    allocation,             \* per handler: the storage emplace allocated for it
    caller,                 \* per thread: where it is in complete/post_complete
    posted,                 \* functions posted to the associated executor
    invocation,             \* per handler: how often and how it was invoked
    teh                     \* the lifetime of the handler object

engineVars == <<local_work_queue, pass_queue, remote_work_queue, remote_active,
                check_remote_work, outstanding_work, stopped, shutdown,
                notify_when_done_list, cq_alarm, op, pc, invoke, processed,
                thread_local_grpc_context, old_context, frames, prod, run_exit,
                work_started_calls, work_finished_calls>>

refVars == <<ref, try_cancel, ref_last>>

\* What the engine's actions leave alone, and what the references' do.
callVars == <<rpc, slot, wire, call_obs, finish_log>>

\* A work guard held outside the run loop.
guardVars == <<guard>>

\* The type-erased completion handler and its users.
handlerVars == <<completion_handler, allocation, caller, posted, invocation,
                 teh>>

clientVars == <<refVars, callVars, guardVars, handlerVars>>
notRefVars == <<engineVars, callVars, guardVars, handlerVars>>
notCallVars == <<engineVars, refVars, guardVars, handlerVars>>
notHandlerVars == <<engineVars, refVars, callVars, guardVars>>

vars == <<engineVars, refVars, callVars, guardVars, handlerVars>>

(* --------------------------- operations -------------------------------- *)
\* An operation that was never submitted.
NoOp == [via |-> "none", ev |-> "none", done |-> 0, res |-> "none",
         by |-> NoThread, fin |-> 0, threw |-> FALSE, walked |-> 0,
         removed |-> FALSE, from |-> NoThread, started |-> 0,
         reran |-> FALSE]

FreeOps == {o \in Ops : op[o].via = "none"}

\* The next unused operation (operations are handed out in increasing order).
NextFree == CHOOSE o \in FreeOps : \A q \in FreeOps : o <= q

RECURSIVE SeqToSet(_)
RECURSIVE ExplicitCancels(_)
SeqToSet(s) == IF s = <<>> THEN {} ELSE {Head(s)} \cup SeqToSet(Tail(s))

RECURSIVE Count(_, _)
Count(s, x) ==
    IF s = <<>> THEN 0 ELSE (IF Head(s) = x THEN 1 ELSE 0) + Count(Tail(s), x)

RECURSIVE Remove(_, _)
Remove(s, x) ==
    IF s = <<>> THEN <<>>
    ELSE IF Head(s) = x THEN Tail(s)
    ELSE <<Head(s)>> \o Remove(Tail(s), x)

(* ------------------------- engine helpers ------------------------------ *)
is_shutdown == shutdown

\* A stop check that always answers yes.
is_stopped_always == TRUE

is_stopped == stopped

\* A check by the identity of the thread alone, blind to the thread-local
\* marker that run() sets and restores.
running_in_this_thread_of_runner(t) == t = Runner

running_in_this_thread(t) == t = Runner /\ thread_local_grpc_context = "this"

\* set_thread_local_grpc_context: std::exchange of the thread-local marker of
\* the thread that calls run(); the old value and the new one.
set_thread_local_grpc_context(grpc_context) ==
    [old |-> thread_local_grpc_context, now |-> grpc_context]

\* A guard that clears the marker when it is destroyed.
restore_thread_local_null(old) == "null"

\* ~ThreadLocalGrpcContextGuard: the marker is set back to old_context_.
restore_thread_local(old) == set_thread_local_grpc_context(old).now

\* OperationResult of an operation taken from the local queue.
LocalResult(inv) == IF inv = "NO" THEN "SHUTDOWN_NOT_OK" ELSE "OK"

\* A classification that looks at the event only.
EventResultIgnoringInvoke(inv, ok) == IF ok THEN "OK" ELSE "NOT_OK"

\* OperationResult of a completion-queue event.
EventResult(inv, ok) ==
    IF inv = "NO"
    THEN (IF ok THEN "SHUTDOWN_OK" ELSE "SHUTDOWN_NOT_OK")
    ELSE (IF ok THEN "OK" ELSE "NOT_OK")

\* AtomicIntrusiveQueue::enqueue: pushes and reports whether this push turned
\* the queue from inactive to active.
enqueue(q, active, o) ==
    [queue |-> Append(q, o), active |-> TRUE, activated |-> ~active]

\* A dequeue that marks the queue inactive whatever it found.
try_mark_inactive_always(q, active) ==
    [taken |-> q, queue |-> <<>>, active |-> FALSE]

\* AtomicIntrusiveQueue::try_mark_inactive_or_dequeue_all: an empty queue is
\* marked inactive, otherwise the whole chain is taken in FIFO order.
try_mark_inactive_or_dequeue_all(q, active) ==
    IF q = <<>>
    THEN [taken |-> <<>>, queue |-> <<>>, active |-> FALSE]
    ELSE [taken |-> q, queue |-> <<>>, active |-> active]

\* The sequence s back to front.
Reverse(s) == [i \in 1..Len(s) |-> s[Len(s) + 1 - i]]

\* A transfer that appends the claimed chain newest first.
move_remote_work_newest_first(lq, rq, active) ==
    LET d == try_mark_inactive_or_dequeue_all(rq, active)
    IN IF d.taken = <<>>
       THEN [local |-> lq, queue |-> d.queue, active |-> d.active, moved |-> FALSE]
       ELSE [local |-> lq \o Reverse(d.taken), queue |-> d.queue,
             active |-> d.active, moved |-> TRUE]

\* A transfer that copies the chain and leaves it in the remote queue.
move_remote_work_copies(lq, rq, active) ==
    LET d == try_mark_inactive_or_dequeue_all(rq, active)
    IN IF d.taken = <<>>
       THEN [local |-> lq, queue |-> d.queue, active |-> d.active, moved |-> FALSE]
       ELSE [local |-> lq \o d.taken, queue |-> rq, active |-> d.active,
             moved |-> TRUE]

\* A transfer that reports nothing moved whatever it moved.
move_remote_work_reports_nothing(lq, rq, active) ==
    LET d == try_mark_inactive_or_dequeue_all(rq, active)
    IN [local |-> lq \o d.taken, queue |-> d.queue, active |-> d.active,
        moved |-> FALSE]

\* move_remote_work_to_local_queue: the new local queue, the new remote queue
\* with its marker, and the returned flag.
move_remote_work_to_local_queue(lq, rq, active) ==
    LET d == try_mark_inactive_or_dequeue_all(rq, active)
    IN IF d.taken = <<>>
       THEN [local |-> lq, queue |-> d.queue, active |-> d.active, moved |-> FALSE]
       ELSE [local |-> lq \o d.taken, queue |-> d.queue, active |-> d.active,
             moved |-> TRUE]

\* A removal that leaves the entry in the list.
unlink_nothing(list, o) == list

\* remove_notify_when_done_operation: notify_when_done_list_.remove.
unlink(list, o) == Remove(list, o)

(* ------------------------------ Init ----------------------------------- *)
EngineInit ==
    /\ local_work_queue = <<>>
    /\ pass_queue = <<>>
    /\ remote_work_queue = <<>>
    /\ remote_active = FALSE
    /\ check_remote_work = FALSE
    /\ outstanding_work = 0
    /\ stopped = FALSE
    /\ shutdown = FALSE
    /\ notify_when_done_list = <<>>
    /\ cq_alarm = 0
    /\ op = [o \in Ops |-> NoOp]
    /\ pc = "out"
    /\ invoke = "YES"
    /\ processed = FALSE
    /\ thread_local_grpc_context = "null"
    /\ old_context = "null"
    /\ frames = <<>>
    /\ prod = [t \in Threads |-> "idle"]
    /\ run_exit = "none"
    /\ work_started_calls = 0
    /\ work_finished_calls = 0
    /\ guard = "none"

(* ----------------------- counters and dispatch ------------------------- *)
\* A scope guard that finishes the work twice.
finishes_twice(threw) == 2

\* A decrement written after the call instead of in a scope guard is skipped
\* when the continuation faults.
finishes_after_return(threw) == IF threw THEN 0 ELSE 1

\* Number of work_finished() calls made when the scope of one dispatch is
\* left (WorkFinishedOnExit is destroyed on return and on unwinding alike).
on_exit_finishes(threw) == 1

\* What a continuation does when it is resumed: nothing more, post a new
\* operation to the engine (add_operation from the running thread), issue a
\* new transport step tagged for the completion queue, or fault.
Behaviours == {"nothing", "post", "step", "throw"}

\* With InvokeHandler::NO the continuation is released without being run.
AllowedBehaviours(inv) ==
    IF inv = "NO" THEN {"nothing"}
    ELSE {b \in Behaviours : b \in {"post", "step"} => FreeOps # {}}

\* add_local_operation: push_back on the local queue.
add_local_operation(lq, o) == Append(lq, o)

\* The operations whose continuations are on the stack of the runner, each
\* inside a run() it called again.
FrameOps == {frames[i].o : i \in 1..Len(frames)}

\* The operations table after operation o was completed with `result` on
\* thread t and its continuation behaved as b.  A fault unwinds the
\* continuations on the stack, and the scope guard of each finishes its work.
Completed(o, result, b, t) ==
    LET fins == on_exit_finishes(b = "throw")
        offset == IF op[o].via = "nwd" THEN 1 ELSE 0
        op0 == [q \in Ops |->
                   IF b = "throw" /\ q \in FrameOps
                   THEN [op[q] EXCEPT !.fin = @ + on_exit_finishes(TRUE)]
                   ELSE op[q]]
        op1 == [op0 EXCEPT ![o] = [@ EXCEPT !.done = @ + 1, !.res = result,
                                            !.by = t, !.fin = @ + fins,
                                            !.started = @ + offset,
                                            !.threw = (b = "throw"),
                                            !.removed = @ \/ op[o].via = "nwd",
                                            !.ev = "none"]]
    IN IF b = "post"
       THEN [op1 EXCEPT ![NextFree] = [NoOp EXCEPT !.via = "local", !.from = t,
                                                   !.started = 1]]
       ELSE IF b = "step"
       THEN [op1 EXCEPT ![NextFree] = [NoOp EXCEPT !.via = "grpc", !.from = t,
                                                   !.ev = "pending",
                                                   !.started = 1]]
       ELSE op1

\* One dispatch on the runner thread: complete(result) is called on o, its
\* continuation runs, and the scope guard finishes the work.  lq is the local
\* queue the continuation sees.  A registration for done-notification is not
\* counted as work: the completion of its tag starts the work the scope guard
\* of process_grpc_tag finishes.
Dispatch(o, result, b, lq) ==
    LET spawned == IF b \in {"post", "step"} THEN 1 ELSE 0
        offset == IF op[o].via = "nwd" THEN 1 ELSE 0
        unwound == IF b = "throw"
                   THEN Len(frames) * on_exit_finishes(TRUE) ELSE 0
        fins == on_exit_finishes(b = "throw") + unwound
        out == outstanding_work + spawned + offset - fins
    IN /\ op' = Completed(o, result, b, Runner)
       /\ local_work_queue' =
              IF b = "post" THEN add_local_operation(lq, NextFree) ELSE lq
       /\ outstanding_work' = out
       /\ work_started_calls' = work_started_calls + spawned + offset
       /\ work_finished_calls' = work_finished_calls + fins
       /\ stopped' = (stopped \/ (fins > 0 /\ out = 0))

\* The runner leaves run() by a fault of a continuation: nothing in the
\* engine catches it, the locals of the frames are destroyed and the
\* thread-local marker is restored.
FaultLeavesRun ==
    /\ pc' = "out"
    /\ pass_queue' = <<>>
    /\ thread_local_grpc_context' = restore_thread_local(old_context)
    /\ frames' = <<>>
    /\ UNCHANGED old_context
    /\ run_exit' = "fault"

\* do_one returns r to the loop that called it.
Return(r) ==
    IF r
    THEN /\ pc' = "top"
         /\ UNCHANGED <<thread_local_grpc_context, old_context, frames, run_exit>>
    ELSE IF invoke = "YES"
    THEN /\ pc' = "out"
         /\ thread_local_grpc_context' = restore_thread_local(old_context)
         /\ UNCHANGED <<old_context, frames>>
         /\ run_exit' = "returned"
    ELSE /\ pc' = "nwd"
         /\ UNCHANGED <<thread_local_grpc_context, old_context, frames, run_exit>>

(* ------------------------- foreign threads ----------------------------- *)
\* A producer that triggers the wake alarm after every enqueue.
add_remote_operation_always(activated) == "alarm"

\* A producer that never triggers the wake alarm.
add_remote_operation_never(activated) == "idle"

\* add_remote_operation after the enqueue: the wake alarm is triggered when
\* the enqueue reports that it made the queue active, and only then.
add_remote_operation(activated) == IF activated THEN "alarm" ELSE "idle"

\* add_operation called by thread t from outside a continuation: a producer
\* at any time, the thread that calls run() while it is not in run().
\* work_started, then the local queue when the thread is running the engine
\* and the remote queue otherwise.
add_operation(t) ==
    /\ prod[t] = "idle"
    /\ UNCHANGED clientVars
    /\ ~shutdown
    /\ FreeOps # {}
    /\ t = Runner => pc = "out"
    /\ LET o == NextFree
           e == enqueue(remote_work_queue, remote_active, o)
       IN IF running_in_this_thread(t)
          THEN /\ op' = [op EXCEPT ![o] = [NoOp EXCEPT !.via = "local", !.from = t,
                                                   !.started = 1]]
               /\ local_work_queue' = add_local_operation(local_work_queue, o)
               /\ UNCHANGED <<remote_work_queue, remote_active, prod>>
          ELSE /\ op' = [op EXCEPT ![o] = [NoOp EXCEPT !.via = "remote", !.from = t,
                                                   !.started = 1]]
               /\ remote_work_queue' = e.queue
               /\ remote_active' = e.active
               /\ prod' = [prod EXCEPT ![t] = add_remote_operation(e.activated)]
               /\ UNCHANGED local_work_queue
    /\ outstanding_work' = outstanding_work + 1
    /\ work_started_calls' = work_started_calls + 1
    /\ UNCHANGED <<pass_queue, check_remote_work, stopped,
                   shutdown, notify_when_done_list, cq_alarm, pc, invoke,
                   processed, thread_local_grpc_context, old_context, frames, run_exit,
                   work_finished_calls>>

\* The rest of add_remote_operation when the enqueue activated the queue.
trigger_work_alarm(p) ==
    /\ prod[p] = "alarm"
    /\ UNCHANGED clientVars
    /\ cq_alarm' = cq_alarm + 1
    /\ prod' = [prod EXCEPT ![p] = "idle"]
    /\ UNCHANGED <<local_work_queue, pass_queue, remote_work_queue,
                   remote_active, check_remote_work, outstanding_work, stopped,
                   shutdown, notify_when_done_list, op, pc, invoke, processed,
                   thread_local_grpc_context, old_context, frames, run_exit, work_started_calls,
                   work_finished_calls>>

\* A thread outside the run loop issues a transport step whose tag is an
\* operation (work_started, then the step is handed to the transport).
issue_step ==
    /\ ~shutdown
    /\ UNCHANGED clientVars
    /\ FreeOps # {}
    /\ op' = [op EXCEPT ![NextFree] = [NoOp EXCEPT !.via = "grpc", !.from = NoThread,
                                                  !.ev = "pending",
                                                  !.started = 1]]
    /\ outstanding_work' = outstanding_work + 1
    /\ work_started_calls' = work_started_calls + 1
    /\ UNCHANGED <<local_work_queue, pass_queue, remote_work_queue,
                   remote_active, check_remote_work, stopped, shutdown,
                   notify_when_done_list, cq_alarm, pc, invoke, processed,
                   thread_local_grpc_context, old_context, frames, prod, run_exit,
                   work_finished_calls>>

\* The transport finishes a step: its tag becomes an event of the completion
\* queue, ok or not.  Nothing new is produced once the queue is shut down.
cq_event(o, ok) ==
    /\ ~shutdown
    /\ UNCHANGED clientVars
    /\ op[o].ev = "pending"
    /\ op' = [op EXCEPT ![o].ev = IF ok THEN "ok" ELSE "notok"]
    /\ UNCHANGED <<local_work_queue, pass_queue, remote_work_queue,
                   remote_active, check_remote_work, outstanding_work, stopped,
                   shutdown, notify_when_done_list, cq_alarm, pc, invoke,
                   processed, thread_local_grpc_context, old_context, frames, prod, run_exit,
                   work_started_calls, work_finished_calls>>

(* ----------------------------- work guard ------------------------------ *)
\* StartWorkAndGuard::StartWorkAndGuard: a thread outside the run loop
\* constructs a guard, which starts one unit of work.
StartWorkAndGuard ==
    /\ guard = "none"
    /\ ~shutdown
    /\ UNCHANGED <<refVars, callVars, handlerVars>>
    /\ guard' = "held"
    /\ outstanding_work' = outstanding_work + 1
    /\ work_started_calls' = work_started_calls + 1
    /\ UNCHANGED <<local_work_queue, pass_queue, remote_work_queue,
                   remote_active, check_remote_work, stopped, shutdown,
                   notify_when_done_list, cq_alarm, op, pc, invoke, processed,
                   thread_local_grpc_context, old_context, frames, prod, run_exit,
                   work_finished_calls>>

\* The guard is destroyed: its functor finishes the work it started, and the
\* engine is stopped when that was the last outstanding work.
WorkFinishedOnExitFunctor ==
    /\ guard = "held"
    /\ UNCHANGED <<refVars, callVars, handlerVars>>
    /\ guard' = "gone"
    /\ outstanding_work' = outstanding_work - on_exit_finishes(FALSE)
    /\ work_finished_calls' = work_finished_calls + on_exit_finishes(FALSE)
    /\ stopped' = (stopped \/ outstanding_work' = 0)
    /\ UNCHANGED <<local_work_queue, pass_queue, remote_work_queue,
                   remote_active, check_remote_work, shutdown,
                   notify_when_done_list, cq_alarm, op, pc, invoke, processed,
                   thread_local_grpc_context, old_context, frames, prod, run_exit,
                   work_started_calls>>

(* ---------------------------- the run loop ----------------------------- *)
\* A test of the counter that never finds it zero.
outstanding_work_is_never_zero(n) == FALSE

\* process_work: the test of the outstanding-work counter on entry.
outstanding_work_is_zero(n) == n = 0

\* process_work for run(), called from outside the run loop: with no
\* outstanding work the engine is marked stopped and the call returns false;
\* otherwise the stopped state is reset, the thread-local marker is installed
\* and the loop over do_one_if_not_stopped starts.
process_work ==
    /\ pc = "out"
    /\ UNCHANGED clientVars
    /\ ~shutdown
    /\ ~running_in_this_thread(Runner)
    /\ prod[Runner] = "idle"
    /\ IF outstanding_work_is_zero(outstanding_work)
       THEN /\ stopped' = TRUE
            /\ run_exit' = "nowork"
            /\ UNCHANGED <<pc, invoke, thread_local_grpc_context, old_context, frames>>
       ELSE /\ stopped' = FALSE
            /\ thread_local_grpc_context' = set_thread_local_grpc_context("this").now
            /\ old_context' = set_thread_local_grpc_context("this").old
            /\ UNCHANGED frames
            /\ pc' = "top"
            /\ invoke' = "YES"
            /\ run_exit' = "running"
    /\ UNCHANGED <<local_work_queue, pass_queue, remote_work_queue,
                   remote_active, check_remote_work, outstanding_work, shutdown,
                   notify_when_done_list, cq_alarm, op, processed, prod,
                   work_started_calls, work_finished_calls>>

\* A copy instead of a move leaves the operations in the engine's queue.
CopyLocalQueue(lq) == [queue |-> lq, left |-> lq]

\* process_local_queue takes the whole local queue: the taken queue and what
\* is left behind in the engine.
TakeLocalQueue(lq) == [queue |-> lq, left |-> <<>>]

\* The head of do_one, up to the point where process_local_queue has taken
\* the local queue: the remote queue is drained only when the flag is set,
\* and the flag keeps the value move_remote_work_to_local_queue returned.
do_one_begin ==
    LET m == IF check_remote_work
             THEN move_remote_work_to_local_queue(local_work_queue,
                                                  remote_work_queue, remote_active)
             ELSE [local |-> local_work_queue, queue |-> remote_work_queue,
                   active |-> remote_active, moved |-> FALSE]
        t == TakeLocalQueue(m.local)
    IN /\ check_remote_work' = m.moved
       /\ remote_work_queue' = m.queue
       /\ remote_active' = m.active
       /\ pass_queue' = t.queue
       /\ local_work_queue' = t.left
       /\ processed' = FALSE
       /\ pc' = "local"

\* One pass of the run() loop: do_one_if_not_stopped.
do_one_if_not_stopped ==
    /\ pc = "top"
    /\ UNCHANGED clientVars
    /\ invoke = "YES"
    /\ IF is_stopped
       THEN /\ pc' = "out"
            /\ thread_local_grpc_context' = restore_thread_local(old_context)
            /\ UNCHANGED <<old_context, frames>>
            /\ run_exit' = "returned"
            /\ UNCHANGED <<local_work_queue, pass_queue, remote_work_queue,
                           remote_active, check_remote_work, processed>>
       ELSE /\ do_one_begin
            /\ UNCHANGED <<thread_local_grpc_context, old_context, frames, run_exit>>
    /\ UNCHANGED <<outstanding_work, stopped, shutdown, notify_when_done_list,
                   cq_alarm, op, invoke, prod, work_started_calls,
                   work_finished_calls>>

\* The loop body of process_local_queue: pop the front of the taken queue and
\* complete it.
process_local_queue ==
    /\ pc = "local"
    /\ UNCHANGED clientVars
    /\ pass_queue # <<>>
    /\ \E b \in AllowedBehaviours(invoke) :
          /\ Dispatch(Head(pass_queue), LocalResult(invoke), b, local_work_queue)
          /\ processed' = TRUE
          /\ IF b = "throw"
             THEN FaultLeavesRun
             ELSE /\ pass_queue' = Tail(pass_queue)
                  /\ UNCHANGED <<pc, thread_local_grpc_context, old_context, frames, run_exit>>
    /\ UNCHANGED <<remote_work_queue, remote_active, check_remote_work,
                   shutdown, notify_when_done_list, cq_alarm, invoke, prod>>

\* A stop predicate that never holds.
stop_predicate_never == FALSE

\* The stop predicate of the loop: run() stops when the engine is stopped,
\* the shutdown loop never stops by predicate.
stop_predicate == IF invoke = "YES" THEN is_stopped ELSE FALSE

\* A test for pending work that never finds any.
is_more_completed_work_pending_never == FALSE

\* A test for pending work that looks at the local queue only.
is_more_completed_work_pending_local_only == local_work_queue # <<>>

\* do_one, after the local pass: the flag the drain of this pass left, or a
\* local queue that is not empty.
is_more_completed_work_pending ==
    check_remote_work \/ local_work_queue # <<>>

\* do_one after the local pass: return without looking at the completion
\* queue, or go on to it with a zero timeout or with the caller's deadline.
do_one_after_local ==
    /\ pc = "local"
    /\ UNCHANGED clientVars
    /\ pass_queue = <<>>
    /\ IF ~is_more_completed_work_pending /\ stop_predicate
       THEN Return(processed)
       ELSE /\ pc' = IF is_more_completed_work_pending
                     THEN "poll_zero" ELSE "poll_wait"
            /\ UNCHANGED <<thread_local_grpc_context, old_context, frames, run_exit>>
    /\ UNCHANGED <<local_work_queue, pass_queue, remote_work_queue,
                   remote_active, check_remote_work, outstanding_work, stopped,
                   shutdown, notify_when_done_list, cq_alarm, op, invoke,
                   processed, prod, work_started_calls, work_finished_calls>>

\* Tags waiting in the completion queue.
ReadyOps == {o \in Ops : op[o].ev \in {"ok", "notok"}}

\* The completion queue has nothing to give and never will: it was shut down
\* and is drained.
CqDrained == shutdown /\ cq_alarm = 0 /\ ReadyOps = {}

\* The tag of the event the wake alarm puts on the completion queue.
HAS_REMOTE_WORK_TAG == "HAS_REMOTE_WORK_TAG"

\* A test of the tag that takes no event for the wake event.
is_remote_work_tag_never(tag) == FALSE

\* handle_next_completion_queue_event: is the tag of the event the wake tag?
\* If not, the tag is taken for an operation and given to process_grpc_tag,
\* whose scope guard finishes one unit of work.
is_remote_work_tag(tag) == tag = HAS_REMOTE_WORK_TAG

\* process_grpc_tag: the tag is an operation; complete it under the scope
\* guard.
process_grpc_tag(o, result, b) == Dispatch(o, result, b, local_work_queue)

\* handle_next_completion_queue_event: the wake tag only sets the flag, any
\* other tag is dispatched; without an event the call returns false (after
\* the zero timeout, or when the queue is shut down and drained).
handle_next_completion_queue_event ==
    /\ pc \in {"poll_zero", "poll_wait"}
    /\ UNCHANGED clientVars
    /\ \/ /\ cq_alarm > 0
          /\ cq_alarm' = cq_alarm - 1
          /\ IF is_remote_work_tag(HAS_REMOTE_WORK_TAG)
             THEN /\ check_remote_work' = TRUE
                  /\ UNCHANGED <<outstanding_work, stopped, work_finished_calls>>
             ELSE /\ outstanding_work' = outstanding_work - 1
                  /\ work_finished_calls' = work_finished_calls + 1
                  /\ stopped' = (stopped \/ outstanding_work' = 0)
                  /\ UNCHANGED check_remote_work
          /\ Return(TRUE)
          /\ UNCHANGED <<local_work_queue, pass_queue, op, work_started_calls,
                         notify_when_done_list>>
       \/ \E o \in ReadyOps : \E b \in AllowedBehaviours(invoke) :
             /\ process_grpc_tag(o, EventResult(invoke, op[o].ev = "ok"), b)
             /\ notify_when_done_list' =
                    IF op[o].via = "nwd"
                    THEN unlink(notify_when_done_list, o)
                    ELSE notify_when_done_list
             /\ IF b = "throw"
                THEN FaultLeavesRun
                ELSE Return(TRUE) /\ UNCHANGED pass_queue
             /\ UNCHANGED <<cq_alarm, check_remote_work>>
       \/ /\ cq_alarm = 0
          /\ ReadyOps = {}
          /\ pc = "poll_zero" \/ CqDrained
          /\ Return(processed)
          /\ UNCHANGED <<local_work_queue, pass_queue, outstanding_work,
                         stopped, op, cq_alarm, check_remote_work,
                         work_started_calls, work_finished_calls,
                         notify_when_done_list>>
    /\ UNCHANGED <<remote_work_queue, remote_active, shutdown, invoke,
                   processed, prod>>

(* ------------------------- run() called again -------------------------- *)
\* The continuation of operation o, which complete(result) resumes on the
\* runner, calls run() on this engine again.  process_work finds the engine
\* running in this thread: it neither tests outstanding_work nor resets the
\* engine nor constructs a guard, it only loops.  On a stopped engine the
\* loop function returns false at once and the continuation goes on and
\* returns; otherwise the continuation stays on the stack, with the rest of
\* the queue its pass had taken, and the loop begins below it.  A loop begun
\* there does not end by a return: the continuation above it holds a unit of
\* work until it returns, so the engine is not stopped inside it.
Reenter(o, result, rest, from_queue) ==
    IF is_stopped
    THEN /\ op' = [Completed(o, result, "nothing", Runner)
                      EXCEPT ![o].reran = TRUE]
         /\ outstanding_work' =
                outstanding_work + (IF op[o].via = "nwd" THEN 1 ELSE 0)
                    - on_exit_finishes(FALSE)
         /\ work_started_calls' =
                work_started_calls + (IF op[o].via = "nwd" THEN 1 ELSE 0)
         /\ work_finished_calls' = work_finished_calls + on_exit_finishes(FALSE)
         /\ UNCHANGED <<local_work_queue, stopped>>
         /\ IF from_queue
            THEN /\ pass_queue' = rest
                 /\ processed' = TRUE
                 /\ UNCHANGED <<pc, thread_local_grpc_context, old_context,
                                frames, run_exit>>
            ELSE /\ Return(TRUE)
                 /\ UNCHANGED <<pass_queue, processed>>
    ELSE LET offset == IF op[o].via = "nwd" THEN 1 ELSE 0
         IN /\ op' = [op EXCEPT ![o] =
                         [@ EXCEPT !.done = @ + 1, !.res = result,
                                   !.by = Runner, !.started = @ + offset,
                                   !.removed = @ \/ op[o].via = "nwd",
                                   !.ev = "none", !.reran = TRUE]]
            /\ frames' = Append(frames, [o |-> o, queue |-> rest])
            /\ pass_queue' = <<>>
            /\ processed' = FALSE
            /\ pc' = "top"
            /\ outstanding_work' = outstanding_work + offset
            /\ work_started_calls' = work_started_calls + offset
            /\ UNCHANGED <<local_work_queue, work_finished_calls, stopped,
                           thread_local_grpc_context, old_context, run_exit>>

\* process_work called from a continuation that the local pass or the
\* completion queue has resumed on the thread that runs the engine.
process_work_reentrant ==
    /\ invoke = "YES"
    /\ UNCHANGED clientVars
    /\ running_in_this_thread(Runner)
    /\ Len(frames) < MaxDepth
    /\ \/ /\ pc = "local"
          /\ pass_queue # <<>>
          /\ Reenter(Head(pass_queue), LocalResult(invoke), Tail(pass_queue),
                     TRUE)
          /\ UNCHANGED notify_when_done_list
       \/ /\ pc \in {"poll_zero", "poll_wait"}
          /\ \E o \in ReadyOps :
                /\ Reenter(o, EventResult(invoke, op[o].ev = "ok"),
                           pass_queue, FALSE)
                /\ notify_when_done_list' =
                       IF op[o].via = "nwd"
                       THEN unlink(notify_when_done_list, o)
                       ELSE notify_when_done_list
    /\ UNCHANGED <<remote_work_queue, remote_active, check_remote_work,
                   shutdown, cq_alarm, invoke, prod>>

\* The thread that owns the engine is resumed by another engine it runs: the
\* guard of that engine's run() sets the thread-local marker to it.
enter_other_context ==
    /\ pc = "out"
    /\ UNCHANGED clientVars
    /\ ~shutdown
    /\ thread_local_grpc_context = "null"
    /\ thread_local_grpc_context' = set_thread_local_grpc_context("other").now
    /\ UNCHANGED <<local_work_queue, pass_queue, remote_work_queue,
                   remote_active, check_remote_work, outstanding_work, stopped,
                   shutdown, notify_when_done_list, cq_alarm, op, pc, invoke,
                   processed, old_context, frames, prod, run_exit,
                   work_started_calls, work_finished_calls>>

\* The other engine's run() returns: its guard sets the marker back.
leave_other_context ==
    /\ pc = "out"
    /\ UNCHANGED clientVars
    /\ thread_local_grpc_context = "other"
    /\ thread_local_grpc_context' = restore_thread_local("null")
    /\ UNCHANGED <<local_work_queue, pass_queue, remote_work_queue,
                   remote_active, check_remote_work, outstanding_work, stopped,
                   shutdown, notify_when_done_list, cq_alarm, op, pc, invoke,
                   processed, old_context, frames, prod, run_exit,
                   work_started_calls, work_finished_calls>>

(* --------------------- done-notification list -------------------------- *)
\* add_notify_when_done_operation: a call registers for done-notification.
add_notify_when_done_operation ==
    /\ ~shutdown
    /\ UNCHANGED clientVars
    /\ FreeOps # {}
    /\ Len(notify_when_done_list) < MaxOps
    /\ notify_when_done_list' = Append(notify_when_done_list, NextFree)
    /\ op' = [op EXCEPT ![NextFree] = [NoOp EXCEPT !.via = "nwd",
                                                  !.ev = "pending"]]
    /\ UNCHANGED <<local_work_queue, pass_queue, remote_work_queue,
                   remote_active, check_remote_work, outstanding_work, stopped,
                   shutdown, cq_alarm, pc, invoke, processed,
                   thread_local_grpc_context, old_context, frames, prod, run_exit,
                   work_started_calls, work_finished_calls>>

\* remove_notify_when_done_operation: an entry is unlinked from the list.
remove_notify_when_done_operation(o) ==
    /\ ~shutdown
    /\ UNCHANGED clientVars
    /\ o \in SeqToSet(notify_when_done_list)
    /\ notify_when_done_list' = unlink(notify_when_done_list, o)
    /\ op' = [op EXCEPT ![o].removed = TRUE]
    /\ UNCHANGED <<local_work_queue, pass_queue, remote_work_queue,
                   remote_active, check_remote_work, outstanding_work, stopped,
                   shutdown, cq_alarm, pc, invoke, processed,
                   thread_local_grpc_context, old_context, frames, prod, run_exit,
                   work_started_calls, work_finished_calls>>

\* An `if` in place of the `while`: only the front entry is completed.
WalkFrontOnly(list, ops) ==
    IF list = <<>>
    THEN [list |-> list, ops |-> ops]
    ELSE [list |-> Tail(list),
          ops |-> [ops EXCEPT ![Head(list)] =
                      [@ EXCEPT !.done = @ + 1, !.walked = @ + 1,
                                !.res = "SHUTDOWN_NOT_OK", !.by = Runner]]]

\* The loop of deallocate_notify_when_done_list: while the list is not empty,
\* pop its front and complete it with SHUTDOWN_NOT_OK.
RECURSIVE WalkNotifyWhenDoneList(_, _)
WalkNotifyWhenDoneList(list, ops) ==
    IF list = <<>>
    THEN [list |-> list, ops |-> ops]
    ELSE WalkNotifyWhenDoneList(
             Tail(list),
             [ops EXCEPT ![Head(list)] =
                 [@ EXCEPT !.done = @ + 1, !.walked = @ + 1,
                           !.res = "SHUTDOWN_NOT_OK", !.by = Runner]])

\* deallocate_notify_when_done_list, called when shutdown is finalized.
deallocate_notify_when_done_list ==
    /\ pc = "nwd"
    /\ UNCHANGED clientVars
    /\ LET w == WalkNotifyWhenDoneList(notify_when_done_list, op)
       IN /\ notify_when_done_list' = w.list
          /\ op' = w.ops
    /\ pc' = "dead"
    /\ UNCHANGED <<local_work_queue, pass_queue, remote_work_queue,
                   remote_active, check_remote_work, outstanding_work, stopped,
                   shutdown, cq_alarm, invoke, processed,
                   thread_local_grpc_context, old_context, frames, prod, run_exit,
                   work_started_calls, work_finished_calls>>

(* ------------------------------ shutdown ------------------------------- *)
\* The engine is shut down by the thread that owns it, outside run(): the
\* engine is stopped, the shutdown flag is set and the completion queue is
\* shut down; then the loop over do_one with InvokeHandler::NO starts.
shutdown_engine ==
    /\ pc = "out"
    /\ UNCHANGED clientVars
    /\ ~shutdown
    /\ \A t \in Threads : prod[t] = "idle"
    /\ shutdown' = TRUE
    /\ stopped' = TRUE
    /\ invoke' = "NO"
    /\ pc' = "top"
    /\ UNCHANGED <<local_work_queue, pass_queue, remote_work_queue,
                   remote_active, check_remote_work, outstanding_work,
                   notify_when_done_list, cq_alarm, op, processed,
                   thread_local_grpc_context, old_context, frames, prod, run_exit,
                   work_started_calls, work_finished_calls>>

\* One pass of the shutdown loop: do_one with InvokeHandler::NO.
do_one ==
    /\ pc = "top"
    /\ UNCHANGED clientVars
    /\ invoke = "NO"
    /\ do_one_begin
    /\ UNCHANGED <<outstanding_work, stopped, shutdown, notify_when_done_list,
                   cq_alarm, op, invoke, prod, thread_local_grpc_context, old_context, frames,
                   run_exit, work_started_calls, work_finished_calls>>

(* ------------------- call-context reference ---------------------------- *)
Refs == 1..NumRefs
Ctxs == 1..NumCtx
\* The null pointer.
NullCtx == 0

\* A tagged pointer: the context (or null) and bit 0.
NullRef == [ptr |-> NullCtx, bit0 |-> FALSE]

\* TaggedPtr::get: the pointer without the bits.
get(v) == v.ptr

\* A test that takes the bits for part of the pointer.
is_null_with_bits(v) == v = NullRef

\* TaggedPtr::is_null.
is_null(v) == v.ptr = NullCtx

\* TaggedPtr::clear: the pointer is reset and the former value returned.
clear(v) == [taken |-> v, left |-> NullRef]

\* TaggedPtr::set_bit<0>.
set_bit(v) == [v EXCEPT !.bit0 = TRUE]

\* TaggedPtr::has_bit<0>.
has_bit(v) == v.bit0

\* A cancel that calls TryCancel on no context.
cancel_never(v) == NullCtx

\* AutoCancelClientContextRef::cancel: the context TryCancel is called on,
\* or NullCtx when there is none.
cancel(v) == IF get(v) # NullCtx THEN get(v) ELSE NullCtx

\* A move that copies the pointer and forgets to clear the source.
move_keeps_source(v) == [taken |-> v, left |-> v]

\* The move constructor and the move part of the move assignment:
\* context_(other.context_.clear()).
move_from(v) == clear(v)

\* A defaulted destructor cancels nothing.
destructor_default(v) == NullCtx

\* ~AutoCancelClientContextRef: cancel().
destructor_cancels(v) == cancel(v)

\* A move assignment that takes the new context first and cancels afterwards.
assign_cancels_after_take(old, new) == cancel(new)

\* operator=(AutoCancelClientContextRef&&): cancel() runs on the value the
\* object holds before other's context is taken.
assign_cancels(old, new) == cancel(old)

NoCancels == [dtor |-> 0, assign |-> 0, explicit |-> 0]

\* try_cancel after one TryCancel on context c (none for NullCtx) from `origin`.
Cancelled(tc, c, origin) ==
    IF c = NullCtx THEN tc
    ELSE [tc EXCEPT ![c] =
             IF origin = "dtor" THEN [@ EXCEPT !.dtor = @ + 1]
             ELSE IF origin = "assign" THEN [@ EXCEPT !.assign = @ + 1]
             ELSE [@ EXCEPT !.explicit = @ + 1]]

TotalCancels(c) == try_cancel[c].dtor + try_cancel[c].assign + try_cancel[c].explicit

\* The number of explicit cancel() calls that reached one of the contexts cs.
ExplicitCancels(cs) ==
    IF cs = {} THEN 0
    ELSE LET c == CHOOSE x \in cs : TRUE
         IN try_cancel[c].explicit + ExplicitCancels(cs \ {c})

\* Contexts that were handed to a reference already; a client context starts
\* one call only.
UsedCtxs == {c \in Ctxs : \E r \in Refs : ref[r].made = c}

RefInit ==
    /\ ref = [r \in Refs |-> [life |-> "none", v |-> NullRef, made |-> NullCtx]]
    /\ try_cancel = [c \in Ctxs |-> NoCancels]
    /\ ref_last = [kind |-> "none", dst |-> NumRefs + 1, src |-> NumRefs + 1,
                   ctx |-> NullCtx]

\* The record of an operation: its kind, the object it acted on, the object
\* it took from, and the context it called TryCancel on (NullCtx for none).
Last(kind, dst, src, c) == [kind |-> kind, dst |-> dst, src |-> src, ctx |-> c]

\* AutoCancelClientContextRef().
ref_default(r) ==
    /\ ref[r].life = "none"
    /\ UNCHANGED notRefVars
    /\ ref' = [ref EXCEPT ![r].life = "alive", ![r].v = NullRef]
    /\ ref_last' = Last("default", r, r, NullCtx)
    /\ UNCHANGED try_cancel

\* AutoCancelClientContextRef(grpc::ClientContext&).
ref_from_context(r, c) ==
    /\ ref[r].life = "none"
    /\ UNCHANGED notRefVars
    /\ c \notin UsedCtxs
    /\ ref' = [ref EXCEPT ![r].life = "alive",
                          ![r].v = [ptr |-> c, bit0 |-> FALSE],
                          ![r].made = c]
    /\ ref_last' = Last("context", r, r, NullCtx)
    /\ UNCHANGED try_cancel

\* AutoCancelClientContextRef(AutoCancelClientContextRef&& other).
ref_move_construct(r, s) ==
    /\ ref[r].life = "none"
    /\ UNCHANGED notRefVars
    /\ ref[s].life = "alive"
    /\ LET m == move_from(ref[s].v)
       IN ref' = [ref EXCEPT ![r].life = "alive", ![r].v = m.taken,
                             ![s].v = m.left]
    /\ ref_last' = Last("move_construct", r, s, NullCtx)
    /\ UNCHANGED try_cancel

\* operator=(AutoCancelClientContextRef&& other), self-assignment included.
ref_move_assign(r, s) ==
    /\ ref[r].life = "alive"
    /\ UNCHANGED notRefVars
    /\ ref[s].life = "alive"
    /\ IF r # s
       THEN LET m == move_from(ref[s].v)
            IN /\ try_cancel' = Cancelled(try_cancel,
                                          assign_cancels(ref[r].v, m.taken),
                                          "assign")
               /\ ref' = [ref EXCEPT ![r].v = m.taken, ![s].v = m.left]
       ELSE UNCHANGED <<ref, try_cancel>>
    /\ ref_last' = Last("move_assign", r, s,
                         IF r # s THEN assign_cancels(ref[r].v, ref[s].v)
                         ELSE NullCtx)

\* clear(): the reference is marked finished.
ref_clear(r) ==
    /\ ref[r].life = "alive"
    /\ UNCHANGED notRefVars
    /\ ref' = [ref EXCEPT ![r].v = clear(@).left]
    /\ ref_last' = Last("clear", r, r, NullCtx)
    /\ UNCHANGED try_cancel

\* set_bit<0>().
ref_set_bit(r) ==
    /\ ref[r].life = "alive"
    /\ UNCHANGED notRefVars
    /\ ref' = [ref EXCEPT ![r].v = set_bit(@)]
    /\ ref_last' = Last("set_bit", r, r, NullCtx)
    /\ UNCHANGED try_cancel

\* cancel() called by the owner of the reference.
ref_cancel(r) ==
    /\ ref[r].life = "alive"
    /\ UNCHANGED notRefVars
    /\ ExplicitCancels(Ctxs) < MaxCancels
    /\ try_cancel' = Cancelled(try_cancel, cancel(ref[r].v), "explicit")
    /\ ref_last' = Last("cancel", r, r, cancel(ref[r].v))
    /\ UNCHANGED ref

\* ~AutoCancelClientContextRef().
ref_destroy(r) ==
    /\ ref[r].life = "alive"
    /\ UNCHANGED notRefVars
    /\ try_cancel' = Cancelled(try_cancel, destructor_cancels(ref[r].v), "dtor")
    /\ ref' = [ref EXCEPT ![r].life = "dead"]
    /\ ref_last' = Last("destroy", r, r, destructor_cancels(ref[r].v))

RefNext ==
    \/ \E r \in Refs : ref_default(r)
    \/ \E r \in Refs : \E c \in Ctxs : ref_from_context(r, c)
    \/ \E r, s \in Refs : ref_move_construct(r, s)
    \/ \E r, s \in Refs : ref_move_assign(r, s)
    \/ \E r \in Refs : ref_clear(r)
    \/ \E r \in Refs : ref_set_bit(r)
    \/ \E r \in Refs : ref_cancel(r)
    \/ \E r \in Refs : ref_destroy(r)

(* --------------------------- client call ------------------------------- *)
\* RPCClientContextBase::is_finished, answered from the writes-done bit too.
is_finished_by_bit(v) == is_null(v) /\ has_bit(v)

\* RPCClientContextBase::is_finished.
is_finished(v) == is_null(v)

\* A set_finished that leaves the reference as it is.
set_finished_keeps(v) == v

\* RPCClientContextBase::set_finished: the reference after clear().
set_finished(v) == clear(v).left

\* An is_writes_done that never sees the bit.
is_writes_done_never(v) == FALSE

\* RPCClientContextBase::is_writes_done.
is_writes_done(v) == has_bit(v)

\* A set_writes_done that leaves the reference as it is.
set_writes_done_keeps(v) == v

\* RPCClientContextBase::set_writes_done.
set_writes_done(v) == set_bit(v)

\* The context of the one call.
CallCtx == NumCtx

Shapes == {"unary", "client_streaming", "server_streaming", "bidi"}

\* The two roles of a call: a step of one role may be in flight together
\* with a step of the other.
Roles == {"rd", "wr"}

WriterSteps == {"write", "write_last", "writes_done"}

RoleOf(name) == IF name \in WriterSteps THEN "wr" ELSE "rd"

\* The steps of a call that finish it on the caller's behalf when they
\* complete not-ok.
AutoFinishSteps == {"request", "read_initial_metadata", "read", "write",
                    "write_last", "writes_done"}

\* The steps a call of a shape offers once it was requested.
StepsOf(shape) ==
    IF shape = "unary" THEN {"finish"}
    ELSE IF shape = "client_streaming"
         THEN {"read_initial_metadata", "write", "write_last", "writes_done",
               "finish"}
    ELSE IF shape = "server_streaming"
         THEN {"read_initial_metadata", "read", "finish"}
    ELSE {"read_initial_metadata", "read", "write", "write_last",
          "writes_done", "finish"}

\* The statuses a server finishes a call with, and the others a call ends with.
ServerStatuses == {"OK", "ALREADY_EXISTS"}
FailedStatuses == {"CANCELLED", "DEADLINE_EXCEEDED", "UNAVAILABLE"}

\* The payloads of a response; NoPayload is a response not yet written.
Payloads == 1..NumPayloads
NoPayload == 0

NoObs == [name |-> "none", ok |-> FALSE, finished |-> FALSE, status |-> "OK",
          final |-> "none", finish_steps |-> 0]

\* A role's slot: the step started last, where it is, the number it got among
\* the steps of the call, the ok of its completion event, and how often its
\* continuation was resumed.
NoSlot == [step |-> "none", phase |-> "idle", id |-> 0, ev |-> "none",
           resumes |-> 0]

CallInit ==
    /\ rpc = [client_context |-> NullRef, status_code |-> "OK",
              shape |-> "none", started |-> 0, response |-> NoPayload,
              writes_done_calls |-> 0, wrote_last |-> FALSE,
              cancel_calls |-> 0]
    /\ slot = [s \in Roles |-> NoSlot]
    /\ wire = [finish_steps |-> 0, writes_done_steps |-> 0, final |-> "none",
               reachable |-> TRUE, msgs |-> 0, sent |-> 0,
               payload |-> NoPayload, cancels |-> 0, cancel_at |-> "none",
               cancel_ids |-> [s \in Roles |-> 0],
               inflight |-> [s \in Roles |-> 0]]
    /\ call_obs = [s \in Roles |-> NoObs]
    /\ finish_log = <<>>

\* What a caller sees when it is resumed with `ok` in the state (r, w).
Obs(name, ok, r, w) ==
    [name |-> name, ok |-> ok,
     finished |-> r.client_context.ptr = NullCtx,
     status |-> r.status_code, final |-> w.final,
     finish_steps |-> w.finish_steps]

\* The slots after the continuation of role s was resumed.
Resumed(sl, s) == [sl EXCEPT ![s].phase = "idle", ![s].resumes = @ + 1]

\* A finish() that reports the ok of the Finish event, which is always true.
FinishResultOfEvent(status) == TRUE

\* What finish() yields: whether the status is OK.
FinishResult(status) == status = "OK"

\* A role is waiting for a Finish step that is in flight.
Waiting(s) ==
    \/ slot[s].phase = "autofinish"
    \/ slot[s].phase = "wire" /\ slot[s].step = "finish"

\* A call that does not know of the Finish step it has issued.
FinishNeverInFlight == FALSE

FinishInFlight == \E s \in Roles : Waiting(s)

\* A caller that does not wait for the step of the role to complete.
RoleNeverBusy(s) == FALSE

\* The caller of a role has a step of that role which has not resumed it yet.
RoleBusy(s) == slot[s].phase # "idle"

\* The caller starts a call: the RPC object is created around its context and
\* the start of the call is in flight.
request(shape) ==
    /\ rpc.shape = "none"
    /\ UNCHANGED notCallVars
    /\ rpc' = [rpc EXCEPT !.shape = shape, !.started = 1,
                          !.client_context = [ptr |-> CallCtx, bit0 |-> FALSE]]
    /\ slot' = [slot EXCEPT !["rd"] = [step |-> "request", phase |-> "wire",
                                       id |-> 1, ev |-> "none", resumes |-> 0]]
    /\ wire' = [wire EXCEPT !.inflight["rd"] = @ + 1]
    /\ UNCHANGED <<call_obs, finish_log>>

\* The caller starts a step on the call it holds.
\*  - A finished call answers at once: finish with the cached status, any
\*    other step with not-ok.
\*  - writes_done after writes-done was signalled answers true at once.
\*  - finish while a Finish step is in flight waits for that step.
\*  - Any other step is issued to the wire.
start_step(name) ==
    /\ rpc.shape # "none"
    /\ UNCHANGED notCallVars
    /\ rpc.started < MaxSteps
    /\ name \in StepsOf(rpc.shape)
    /\ ~RoleBusy(RoleOf(name))
    /\ (name \in {"write", "write_last"} /\ ~is_finished(rpc.client_context))
          => ~is_writes_done(rpc.client_context)
    /\ LET s == RoleOf(name)
           r == [rpc EXCEPT !.started = @ + 1,
                            !.writes_done_calls =
                                IF name = "writes_done" THEN @ + 1 ELSE @]
           begun == [slot EXCEPT ![s] = [step |-> name, phase |-> "wire",
                                         id |-> r.started, ev |-> "none",
                                         resumes |-> 0]]
       IN IF is_finished(rpc.client_context)
             \/ (name = "writes_done" /\ is_writes_done(rpc.client_context))
          THEN LET ok == IF is_finished(rpc.client_context)
                         THEN name = "finish" /\ FinishResult(rpc.status_code)
                         ELSE TRUE
               IN /\ rpc' = r
                  /\ slot' = Resumed(begun, s)
                  /\ call_obs' = [call_obs EXCEPT ![s] = Obs(name, ok, r, wire)]
                  /\ finish_log' = IF name = "finish"
                                   THEN Append(finish_log, ok) ELSE finish_log
                  /\ UNCHANGED wire
          ELSE /\ rpc' = [r EXCEPT !.client_context =
                                      IF name \in {"write_last", "writes_done"}
                                      THEN set_writes_done(@) ELSE @]
               /\ slot' = begun
               /\ wire' = [wire EXCEPT
                      !.finish_steps =
                          IF name = "finish" /\ ~FinishInFlight THEN @ + 1 ELSE @,
                      !.writes_done_steps =
                          IF name = "writes_done" THEN @ + 1 ELSE @,
                      !.inflight[s] = IF name = "finish" THEN @ ELSE @ + 1]
               /\ UNCHANGED <<call_obs, finish_log>>

\* A read that completes ok as long as the call did not fail, message or not.
StepOkWithoutMessage(name) ==
    IF name = "request" THEN wire.reachable /\ wire.final = "none"
    ELSE IF name = "read" THEN wire.final \notin FailedStatuses
    ELSE wire.final = "none"

\* Whether a step that completes now completes ok: the start of a call when
\* the server is there, a read when a message is there and the call did not
\* fail, any other step while the call is alive.
StepOk(name) ==
    IF name = "request" THEN wire.reachable /\ wire.final = "none"
    ELSE IF name = "read"
         THEN wire.msgs > 0 /\ wire.final \notin FailedStatuses
    ELSE wire.final = "none"

\* Whether the transport has a completion for the step: a read waits for a
\* message or for the end of the call.
Ready(name) == name = "read" => (wire.msgs > 0 \/ wire.final # "none")

\* The completion of the step of role s, other than finish.  Ok: the caller
\* is resumed with true.  Not ok: on a finished call the caller is resumed
\* with false; otherwise the caller waits for the Finish step, which is
\* issued unless one is in flight already.
step_done(s) ==
    /\ slot[s].phase = "wire"
    /\ UNCHANGED notCallVars
    /\ slot[s].step \in AutoFinishSteps
    /\ Ready(slot[s].step)
    /\ LET name == slot[s].step
           ok == StepOk(name)
           event == IF ok THEN "ok" ELSE "notok"
           w == [wire EXCEPT !.inflight[s] = @ - 1,
                             !.msgs = IF name = "read" /\ ok THEN @ - 1 ELSE @,
                             !.final = IF ~ok /\ @ = "none" THEN "UNAVAILABLE"
                                       ELSE @]
       IN /\ rpc' = [rpc EXCEPT !.wrote_last = @ \/ (name = "write_last" /\ ok)]
          /\ IF ok \/ is_finished(rpc.client_context)
             THEN /\ slot' = Resumed([slot EXCEPT ![s].ev = event], s)
                  /\ wire' = w
                  /\ call_obs' = [call_obs EXCEPT ![s] = Obs(name, ok, rpc, w)]
             ELSE /\ slot' = [slot EXCEPT ![s].phase = "autofinish",
                                          ![s].ev = event]
                  /\ wire' = [w EXCEPT !.finish_steps =
                                           IF FinishInFlight THEN @ ELSE @ + 1]
                  /\ UNCHANGED call_obs
    /\ UNCHANGED finish_log

\* The completion of the Finish step: the status is stored, the call is marked
\* finished and every caller that waits for it is resumed, with status.ok()
\* after finish() and with not-ok after a step that failed.
finish_done ==
    /\ FinishInFlight
    /\ UNCHANGED notCallVars
    /\ wire.final # "none"
    /\ LET r == [rpc EXCEPT
                    !.status_code = wire.final,
                    !.client_context = set_finished(@),
                    !.response = IF wire.final = "OK" /\ wire.payload # NoPayload
                                 THEN wire.payload ELSE @]
           Result(s) == slot[s].step = "finish" /\ FinishResult(r.status_code)
       IN /\ rpc' = r
          /\ slot' = [s \in Roles |->
                         IF Waiting(s) THEN Resumed(slot, s)[s] ELSE slot[s]]
          /\ call_obs' = [s \in Roles |->
                             IF Waiting(s)
                             THEN Obs(slot[s].step, Result(s), r, wire)
                             ELSE call_obs[s]]
          /\ finish_log' = IF Waiting("rd") /\ slot["rd"].step = "finish"
                           THEN Append(finish_log, Result("rd"))
                           ELSE finish_log
    /\ UNCHANGED wire

\* grpc::ClientContext::TryCancel on the context of the call: the call ends
\* CANCELLED unless it has ended already.  cancel_at records the read-role
\* step that was in flight then, cancel_ids the step of each role that was.
TryCancel(w) ==
    [w EXCEPT !.cancels = @ + 1,
              !.cancel_at = IF slot["rd"].phase = "wire"
                            THEN slot["rd"].step ELSE "idle",
              !.cancel_ids = [s \in Roles |->
                                 IF slot[s].phase = "wire" THEN slot[s].id ELSE 0],
              !.final = IF @ = "none" THEN "CANCELLED" ELSE @]

\* The caller calls TryCancel on the context it gave to the call.
try_cancel_call ==
    /\ wire.cancels + rpc.cancel_calls < MaxCancels
    /\ UNCHANGED notCallVars
    /\ wire' = TryCancel(wire)
    /\ UNCHANGED <<rpc, slot, call_obs, finish_log>>

\* A cancel() that takes the reference to the context away.
context_cleared_by_cancel(v) == clear(v).left

\* The reference a call holds after cancel(): cancel() is const.
context_after_cancel(v) == v

\* RPC::cancel, which per-operation cancellation of a step calls:
\* RPCClientContextBase::cancel on the reference the call holds.  A call that
\* still holds its context gets TryCancel, a finished call nothing.
rpc_cancel ==
    /\ rpc.shape # "none"
    /\ wire.cancels + rpc.cancel_calls < MaxCancels
    /\ UNCHANGED notCallVars
    /\ rpc' = [rpc EXCEPT !.cancel_calls = @ + 1,
                          !.client_context = context_after_cancel(@)]
    /\ wire' = IF cancel(rpc.client_context) # NullCtx
               THEN TryCancel(wire) ELSE wire
    /\ UNCHANGED <<slot, call_obs, finish_log>>

\* The deadline of the call expires.
deadline_expires ==
    /\ wire.final = "none"
    /\ UNCHANGED notCallVars
    /\ rpc.shape # "none"
    /\ wire' = [wire EXCEPT !.final = "DEADLINE_EXCEEDED"]
    /\ UNCHANGED <<rpc, slot, call_obs, finish_log>>

\* The server is shut down before the call is requested.
server_shutdown ==
    /\ rpc.shape = "none"
    /\ UNCHANGED notCallVars
    /\ wire.reachable
    /\ wire' = [wire EXCEPT !.reachable = FALSE]
    /\ UNCHANGED <<rpc, slot, call_obs, finish_log>>

\* The server has accepted the call and has not finished it.
ServerInCall ==
    /\ rpc.shape # "none"
    /\ ~(slot["rd"].step = "request" /\ slot["rd"].phase = "wire")
    /\ wire.reachable
    /\ wire.final = "none"

\* The server writes a message of the stream.
server_write ==
    /\ ServerInCall
    /\ UNCHANGED notCallVars
    /\ rpc.shape \in {"server_streaming", "bidi"}
    /\ wire.sent < MaxMsgs
    /\ wire' = [wire EXCEPT !.msgs = @ + 1, !.sent = @ + 1]
    /\ UNCHANGED <<rpc, slot, call_obs, finish_log>>

\* The responses a server gives on a call of a shape: one payload where the
\* response comes with the status, none on a stream of responses.
ResponsesOf(shape) ==
    IF shape \in {"unary", "client_streaming"} THEN Payloads ELSE {NoPayload}

\* The server finishes the call with a status and, where the shape has one,
\* the response.
server_finish(code, p) ==
    /\ ServerInCall
    /\ UNCHANGED notCallVars
    /\ p \in ResponsesOf(rpc.shape)
    /\ wire' = [wire EXCEPT !.final = code, !.payload = p]
    /\ UNCHANGED <<rpc, slot, call_obs, finish_log>>

CallNext ==
    \/ \E shape \in Shapes : request(shape)
    \/ \E name \in AutoFinishSteps \cup {"finish"} : start_step(name)
    \/ \E s \in Roles : step_done(s)
    \/ finish_done
    \/ try_cancel_call
    \/ rpc_cancel
    \/ deadline_expires
    \/ server_shutdown
    \/ server_write
    \/ \E code \in ServerStatuses :
          \E p \in Payloads \cup {NoPayload} : server_finish(code, p)

(* ------------------ type-erased completion handler -------------------- *)
\* The threads that use one AtomicTypeErasedCompletionHandler.
Completers == {"a", "b"}

\* The handlers emplaced, in order; a handler's storage has its number.
Handlers == 1..MaxHandlers

\* The null pointer, and the object a thread reads through it.
nullptr == 0

NoCaller == [pc |-> "idle", fn |-> "none", obj |-> "none", data |-> nullptr,
             held |-> nullptr, local |-> nullptr, calls |-> 0,
             assertion |-> "none"]

HandlerInit ==
    /\ completion_handler = nullptr
    /\ allocation = [h \in Handlers |-> [state |-> "none", deallocations |-> 0]]
    /\ caller = [t \in Completers |-> NoCaller]
    /\ posted = <<>>
    /\ invocation = [h \in Handlers \cup {nullptr} |->
                        [count |-> 0, live |-> FALSE, how |-> {}]]
    /\ teh = "alive"

\* operator bool.
HasHandler(p) == p # nullptr

\* A read of the stored pointer that leaves it in place.
peek_completion_handler(p) == [old |-> p, now |-> p]

\* VoidPointerTraits::exchange, atomic on the atomic variant: the old value
\* is returned and the new one stored.
exchange(p, v) == [old |-> p, now |-> v]

\* release_completion_handler.
release_completion_handler(p) == exchange(p, nullptr)

\* detail::deallocate: the storage goes back to the allocator.
deallocate(a, p) ==
    [a EXCEPT ![p].state = "freed", ![p].deallocations = @ + 1]

\* A completion that leaves the storage allocated until after the handler ran.
invoke_in_place(a, p) == [local |-> p, allocation |-> a]

\* deallocate_completion_handler: the handler is moved into a local, its
\* storage is deallocated with the local's allocator, the local is returned.
deallocate_completion_handler(a, p) ==
    [local |-> p, allocation |-> deallocate(a, p)]

\* The handlers emplaced so far.
Emplaced == {h \in Handlers : allocation[h].state # "none"}

\* emplace: storage for the handler is allocated with its associated
\* allocator, the pointer is stored and the two completion functions are set.
emplace ==
    /\ teh = "alive"
    /\ Emplaced # Handlers
    /\ UNCHANGED notHandlerVars
    /\ LET h == CHOOSE x \in Handlers \ Emplaced :
                   \A y \in Handlers \ Emplaced : x <= y
       IN /\ completion_handler' = h
          /\ allocation' = [allocation EXCEPT ![h].state = "live"]
    /\ UNCHANGED <<caller, posted, invocation, teh>>

\* Thread t has an object it may call complete, post_complete on: the atomic
\* one, whose completion functions emplace has set, or one it got from release.
MayCall(t) ==
    /\ caller[t].calls < MaxCalls
    /\ \/ caller[t].pc = "idle" /\ teh = "alive" /\ Emplaced # {}
       \/ caller[t].pc = "released"

\* The first step of complete and post_complete: the stored pointer is
\* exchanged with null, and the completion function fn is called with it.
Exchange(t, fn) ==
    /\ UNCHANGED notHandlerVars
    /\ IF caller[t].pc = "idle"
       THEN LET x == release_completion_handler(completion_handler)
            IN /\ completion_handler' = x.now
               /\ caller' = [caller EXCEPT ![t].pc = "called", ![t].fn = fn,
                                           ![t].obj = "atomic",
                                           ![t].data = x.old,
                                           ![t].calls = @ + 1]
       ELSE LET x == release_completion_handler(caller[t].held)
            IN /\ UNCHANGED completion_handler
               /\ caller' = [caller EXCEPT ![t].pc = "called", ![t].fn = fn,
                                           ![t].obj = "released",
                                           ![t].held = x.now,
                                           ![t].data = x.old,
                                           ![t].calls = @ + 1]
    /\ UNCHANGED <<allocation, posted, invocation, teh>>

\* complete() &&.
complete(t) ==
    /\ MayCall(t)
    /\ Exchange(t, "complete")

\* post_complete() &&.
post_complete(t) ==
    /\ MayCall(t)
    /\ Exchange(t, "post_complete")

\* release(): the pointer is exchanged with null and handed, with the two
\* completion functions, to a TypeErasedCompletionHandler the caller holds.
release(t) ==
    /\ caller[t].pc = "idle" /\ teh = "alive" /\ Emplaced # {}
    /\ caller[t].calls < MaxCalls
    /\ UNCHANGED notHandlerVars
    /\ LET x == release_completion_handler(completion_handler)
       IN /\ completion_handler' = x.now
          /\ caller' = [caller EXCEPT ![t].pc = "released", ![t].held = x.old,
                                      ![t].calls = @ + 1]
    /\ UNCHANGED <<allocation, posted, invocation, teh>>

\* Where a thread is when the call it made on an object returns.
AfterCall(t) == IF caller[t].obj = "released" THEN "released" ELSE "idle"

\* The start of deallocate_and_invoke and of post_and_complete.
\*  - With a handler: it is moved out and its storage deallocated; a move
\*    constructor that throws leaves the call with the storage allocated.
\*  - With a null pointer the move reads through null, which is undefined:
\*    the thread crashes, or goes on with whatever object it read.
move_and_deallocate(t, outcome) ==
    /\ caller[t].pc = "called"
    /\ UNCHANGED notHandlerVars
    /\ IF HasHandler(caller[t].data)
       THEN /\ outcome \in {"moved", "throw"}
            /\ LET d == deallocate_completion_handler(allocation,
                                                      caller[t].data)
               IN IF outcome = "moved"
                  THEN /\ allocation' = d.allocation
                       /\ caller' = [caller EXCEPT ![t].pc = "local",
                                                   ![t].local = d.local]
                  ELSE /\ UNCHANGED allocation
                       /\ caller' = [caller EXCEPT ![t].pc = AfterCall(t)]
       ELSE /\ outcome \in {"crash", "garbage"}
            /\ UNCHANGED allocation
            /\ caller' = [caller EXCEPT
                            ![t].pc = IF outcome = "crash" THEN "crashed"
                                      ELSE "local",
                            ![t].local = nullptr]
    /\ UNCHANGED <<completion_handler, posted, invocation, teh>>

\* The invocation of handler h, inline or from the executor.
Invoked(h, how) ==
    [invocation EXCEPT ![h].count = @ + 1,
                       ![h].how = @ \cup {how},
                       ![h].live = @ \/ (HasHandler(h) /\
                                            allocation[h].state = "live")]

\* The end of deallocate_and_invoke: the local handler is invoked.
deallocate_and_invoke(t) ==
    /\ caller[t].pc = "local" /\ caller[t].fn = "complete"
    /\ UNCHANGED notHandlerVars
    /\ invocation' = Invoked(caller[t].local, "inline")
    /\ caller' = [caller EXCEPT ![t].pc = AfterCall(t), ![t].local = nullptr]
    /\ UNCHANGED <<completion_handler, allocation, posted, teh>>

\* The end of post_and_complete: a function that owns the local handler is
\* posted to its associated executor, which never runs it inside the call.
post_and_complete(t) ==
    /\ caller[t].pc = "local" /\ caller[t].fn = "post_complete"
    /\ UNCHANGED notHandlerVars
    /\ posted' = Append(posted, caller[t].local)
    /\ caller' = [caller EXCEPT ![t].pc = AfterCall(t), ![t].local = nullptr]
    /\ UNCHANGED <<completion_handler, allocation, invocation, teh>>

\* The executor runs the posted function, which applies the handler.
posted_function ==
    /\ posted # <<>>
    /\ UNCHANGED notHandlerVars
    /\ invocation' = Invoked(Head(posted), "posted")
    /\ posted' = Tail(posted)
    /\ UNCHANGED <<completion_handler, allocation, caller, teh>>

\* What assert(!(*this)) finds for a stored pointer.
AssertEmpty(p) == IF HasHandler(p) THEN "failed" ELSE "ok"

\* The destructor of the object a thread got from release.
destroy_released(t) ==
    /\ caller[t].pc = "released"
    /\ UNCHANGED notHandlerVars
    /\ caller' = [caller EXCEPT ![t].pc = "idle", ![t].obj = "none",
                                ![t].held = nullptr,
                                ![t].assertion = AssertEmpty(caller[t].held)]
    /\ UNCHANGED <<completion_handler, allocation, posted, invocation, teh>>

\* The destructor of the atomic object, when no thread is inside a call on it.
destroy_handler_object ==
    /\ teh = "alive"
    /\ \A t \in Completers :
          caller[t].pc \in {"called", "local"} => caller[t].obj = "released"
    /\ UNCHANGED notHandlerVars
    /\ teh' = IF AssertEmpty(completion_handler) = "ok" THEN "destroyed"
              ELSE "assertion_failed"
    /\ UNCHANGED <<completion_handler, allocation, caller, posted, invocation>>

HandlerNext ==
    \/ emplace
    \/ \E t \in Completers : complete(t)
    \/ \E t \in Completers : post_complete(t)
    \/ \E t \in Completers : release(t)
    \/ \E t \in Completers :
          \E outcome \in {"moved", "throw", "crash", "garbage"} :
             move_and_deallocate(t, outcome)
    \/ \E t \in Completers : deallocate_and_invoke(t)
    \/ \E t \in Completers : post_and_complete(t)
    \/ posted_function
    \/ \E t \in Completers : destroy_released(t)
    \/ destroy_handler_object

(* --------------------------- specification ----------------------------- *)
EngineNext ==
    \/ \E t \in Threads : add_operation(t)
    \/ \E t \in Threads : trigger_work_alarm(t)
    \/ issue_step
    \/ \E o \in Ops : \E ok \in BOOLEAN : cq_event(o, ok)
    \/ process_work
    \/ do_one_if_not_stopped
    \/ process_local_queue
    \/ do_one_after_local
    \/ handle_next_completion_queue_event
    \/ add_notify_when_done_operation
    \/ \E o \in Ops : remove_notify_when_done_operation(o)
    \/ shutdown_engine
    \/ do_one
    \/ deallocate_notify_when_done_list

Init == EngineInit /\ RefInit /\ CallInit /\ HandlerInit

Next == EngineNext

Spec == Init /\ [][Next]_vars

\* The engine with a thread that holds a work guard for a while.
GuardNext ==
    \/ \E t \in Threads : add_operation(t)
    \/ \E t \in Threads : trigger_work_alarm(t)
    \/ issue_step
    \/ \E o \in Ops : \E ok \in BOOLEAN : cq_event(o, ok)
    \/ process_work
    \/ do_one_if_not_stopped
    \/ process_local_queue
    \/ do_one_after_local
    \/ handle_next_completion_queue_event
    \/ add_notify_when_done_operation
    \/ \E o \in Ops : remove_notify_when_done_operation(o)
    \/ shutdown_engine
    \/ do_one
    \/ deallocate_notify_when_done_list
    \/ StartWorkAndGuard
    \/ WorkFinishedOnExitFunctor

GuardSpec == Init /\ [][GuardNext]_vars

\* The engine run by a thread that also runs another engine, with
\* continuations that call run() again.
NestedNext ==
    \/ \E t \in Threads : add_operation(t)
    \/ \E t \in Threads : trigger_work_alarm(t)
    \/ issue_step
    \/ \E o \in Ops : \E ok \in BOOLEAN : cq_event(o, ok)
    \/ process_work
    \/ do_one_if_not_stopped
    \/ process_local_queue
    \/ do_one_after_local
    \/ handle_next_completion_queue_event
    \/ add_notify_when_done_operation
    \/ \E o \in Ops : remove_notify_when_done_operation(o)
    \/ shutdown_engine
    \/ do_one
    \/ deallocate_notify_when_done_list
    \/ process_work_reentrant
    \/ enter_other_context
    \/ leave_other_context

NestedSpec == Init /\ [][NestedNext]_vars

\* The type-erased completion handler with the threads that complete it.
HandlerSpec == Init /\ [][HandlerNext]_vars

\* The references alone: objects are constructed, moved, assigned, cleared,
\* cancelled and destroyed in any order.
RefSpec == Init /\ [][RefNext]_vars

\* One client call alone: the caller's steps against the transport.
CallSpec == Init /\ [][CallNext]_vars

\* The transport delivers the completion event of every step in flight.
CallFairness ==
    /\ \A s \in Roles : WF_vars(step_done(s))
    /\ WF_vars(finish_done)

LiveCallSpec == Init /\ [][CallNext]_vars /\ CallFairness

\* The scheduling the liveness claims assume: the thread that owns the engine
\* keeps calling run() while there is work, every step of the run loop and of
\* the shutdown loop is eventually taken, and a producer that has enqueued
\* goes on to fire the wake alarm it owes.
Fairness ==
    /\ WF_vars(process_work)
    /\ WF_vars(do_one_if_not_stopped)
    /\ WF_vars(process_local_queue)
    /\ WF_vars(do_one_after_local)
    /\ WF_vars(handle_next_completion_queue_event)
    /\ WF_vars(do_one)
    /\ WF_vars(deallocate_notify_when_done_list)
    /\ \A t \in Threads : WF_vars(trigger_work_alarm(t))

LiveSpec == Init /\ [][Next]_vars /\ Fairness

(* ------------------------------- claims -------------------------------- *)
LocalOps == {o \in Ops : op[o].via = "local"}
ShutdownResults == {"SHUTDOWN_OK", "SHUTDOWN_NOT_OK"}

C2_RemoteEventuallyRun ==
    /\ \A o \in Ops : [](op[o].via = "remote" => <>(op[o].done >= 1))
    /\ [](\A o \in Ops :
            (op[o].via = "remote" /\ op[o].done >= 1) => op[o].by = Runner)

\* C5: when shutdown is finalized the done-notification list is empty, every
\* entry that was still registered has been completed exactly once, with
\* SHUTDOWN_NOT_OK, although no completion-queue event was queued for it, and
\* an entry removed before is not completed by the walk; before the walk no
\* entry is completed.
C5_NotifyWhenDoneWalk ==
    /\ pc = "dead" =>
          /\ notify_when_done_list = <<>>
          /\ \A o \in Ops : op[o].via = "nwd" =>
                IF op[o].removed
                THEN op[o].walked = 0
                ELSE /\ op[o].walked = 1
                     /\ op[o].done = 1
                     /\ op[o].res = "SHUTDOWN_NOT_OK"
    /\ pc # "dead" => \A o \in Ops : op[o].walked = 0

\* Shutdown was finalized with two entries registered and one removed before.
C5_Witness ==
    /\ pc = "dead"
    /\ \E o1, o2, o3 \in Ops :
          /\ o1 # o2
          /\ op[o1].walked = 1 /\ op[o2].walked = 1
          /\ op[o3].via = "nwd" /\ op[o3].removed

\* C6: when a continuation faults during a dispatch, the outstanding-work
\* counter is decremented exactly once for that operation in the same
\* dispatch (after the work a done-notification tag starts in that dispatch),
\* and the fault leaves run() to its caller.
C6_FaultBookkeeping ==
    [][\A o \in Ops :
          (op'[o].done = op[o].done + 1 /\ op'[o].threw) =>
             /\ op'[o].fin = op[o].fin + 1
             /\ op'[o].fin = 1
             /\ outstanding_work' = outstanding_work
                    + (work_started_calls' - work_started_calls) - 1
             /\ work_finished_calls' = work_finished_calls + 1
             /\ pc' = "out"
             /\ run_exit' = "fault"]_vars

\* A continuation of a completion-queue tag has faulted and so has one of a
\* queued operation, and the last run() was left by a fault.
C6_Witness ==
    /\ run_exit = "fault"
    /\ \E o1, o2 \in Ops :
          /\ op[o1].threw /\ op[o1].via = "grpc"
          /\ op[o2].threw /\ op[o2].via \in {"local", "remote"}

\* C7: a completion dispatched after the shutdown flag was set is classified
\* SHUTDOWN_OK (event ok) or SHUTDOWN_NOT_OK (event not ok, or an operation
\* from a work queue or from the done-notification list); a completion
\* dispatched before is classified OK or NOT_OK.
C7_ShutdownClassification ==
    [][\A o \in Ops :
          op'[o].done = op[o].done + 1 =>
             IF shutdown
             THEN op'[o].res = (IF op[o].ev = "ok" THEN "SHUTDOWN_OK"
                                ELSE "SHUTDOWN_NOT_OK")
             ELSE op'[o].res = (IF op[o].ev = "notok" THEN "NOT_OK" ELSE "OK")]_vars

\* After shutdown an ok event was completed with SHUTDOWN_OK, a not-ok event
\* and a queued operation with SHUTDOWN_NOT_OK.
C7_Witness ==
    /\ shutdown
    /\ \E o1, o2, o3 \in Ops :
          /\ op[o1].res = "SHUTDOWN_OK"
          /\ op[o2].res = "SHUTDOWN_NOT_OK" /\ op[o2].via = "grpc"
          /\ op[o3].res = "SHUTDOWN_NOT_OK" /\ op[o3].via \in {"local", "remote"}

\* The operations thread t submits in this step of the behaviour.
AddedBy(t) ==
    {o \in Ops : /\ op[o].via = "none"
                 /\ op'[o].via \in {"local", "remote"}
                 /\ op'[o].from = t}

\* C18: a thread that enqueues into the remote queue goes on to fire the
\* wake alarm exactly when its own enqueue found the queue inactive and made
\* it active; an enqueue into an active queue is followed by no wake, and the
\* alarm is fired once, only by a thread whose enqueue activated the queue.
C18_WakeIffActivated ==
    /\ [][\A t \in Threads : \A o \in AddedBy(t) :
             op'[o].via = "remote" =>
                /\ remote_active'
                /\ prod'[t] = "alarm" <=> ~remote_active
                /\ cq_alarm' = cq_alarm]_vars
    /\ [][cq_alarm' > cq_alarm =>
             /\ cq_alarm' = cq_alarm + 1
             /\ \E t \in Threads :
                   /\ prod[t] = "alarm"
                   /\ prod' = [prod EXCEPT ![t] = "idle"]]_vars
    /\ [][\A t \in Threads :
             (prod[t] = "alarm" /\ prod'[t] # "alarm") => cq_alarm' = cq_alarm + 1]_vars

\* Two producers have enqueued one operation each, the only two ever
\* submitted; both are still in the remote queue, one wake alarm was fired
\* and no producer has one left to fire.
C18_Witness ==
    /\ work_started_calls = 2
    /\ Len(remote_work_queue) = 2
    /\ op[remote_work_queue[1]].from \in Producers
    /\ op[remote_work_queue[2]].from \in Producers
    /\ op[remote_work_queue[1]].from # op[remote_work_queue[2]].from
    /\ cq_alarm = 1
    /\ \A t \in Threads : prod[t] = "idle"

\* C19: handling the event of the wake alarm sets the check-remote-work flag
\* and nothing else: no operation is completed, and the outstanding-work
\* counter, the stopped flag and both work queues are as they were.
C19_WakeOnlySetsFlag ==
    [][cq_alarm' < cq_alarm =>
          /\ cq_alarm' = cq_alarm - 1
          /\ check_remote_work'
          /\ op' = op
          /\ outstanding_work' = outstanding_work
          /\ work_finished_calls' = work_finished_calls
          /\ stopped' = stopped
          /\ local_work_queue' = local_work_queue
          /\ pass_queue' = pass_queue
          /\ remote_work_queue' = remote_work_queue
          /\ remote_active' = remote_active]_vars

\* The run loop has handled the only wake event while an operation was in
\* the remote queue and another one was in the local queue: the flag is set
\* and both operations are still outstanding.
C19_Witness ==
    /\ check_remote_work
    /\ cq_alarm = 0
    /\ pc = "top"
    /\ \A t \in Threads : prod[t] = "idle"
    /\ remote_work_queue # <<>>
    /\ local_work_queue # <<>>
    /\ outstanding_work = Len(remote_work_queue) + Len(local_work_queue)
    /\ \A o \in SeqToSet(remote_work_queue) \cup SeqToSet(local_work_queue) :
          op[o].done = 0

\* C20: an operation submitted through add_operation goes to the local
\* queue exactly when the submitting thread is inside run() of the engine
\* (the thread-local marker is the engine) and to the remote queue otherwise,
\* and the local queue is changed only by the thread that is inside the run
\* loop or the shutdown loop.
C20_LocalIffRunning ==
    /\ [][\A t \in Threads : \A o \in AddedBy(t) :
             /\ op'[o].via = "local" <=>
                   (t = Runner /\ thread_local_grpc_context = "this")
             /\ op'[o].via = "local" =>
                   /\ local_work_queue' # <<>>
                   /\ local_work_queue'[Len(local_work_queue')] = o
                   /\ remote_work_queue' = remote_work_queue
             /\ op'[o].via = "remote" =>
                   /\ remote_work_queue' = Append(remote_work_queue, o)
                   /\ local_work_queue' = local_work_queue]_vars
    /\ [][local_work_queue' # local_work_queue => pc # "out"]_vars

\* The thread that calls run() has submitted one operation before run() and
\* one from a continuation inside run(), and a producer has submitted one
\* while run() was executing.
C20_Witness ==
    \E o1, o2, o3 \in Ops :
       /\ op[o1].via = "remote" /\ op[o1].from = Runner
       /\ op[o2].via = "local" /\ op[o2].from = Runner
       /\ op[o3].via = "remote" /\ op[o3].from \in Producers
       /\ o1 < o2 /\ o2 < o3
       /\ run_exit = "running"

\* C23: the remote queue is drained only in a step that found the
\* check-remote-work flag set; the flag stays set after a drain that moved
\* operations to the local queue, and it is cleared only by a drain that found
\* the remote queue empty, which is the one that marks the queue inactive.
C23_DrainOnlyWhenFlagged ==
    /\ [][Len(remote_work_queue') < Len(remote_work_queue) =>
             /\ check_remote_work
             /\ check_remote_work'
             /\ remote_work_queue' = <<>>
             /\ remote_active' = remote_active]_vars
    /\ [][~check_remote_work =>
             /\ Len(remote_work_queue') >= Len(remote_work_queue)
             /\ remote_active => remote_active']_vars
    /\ [][(check_remote_work /\ ~check_remote_work') =>
             /\ remote_work_queue = <<>>
             /\ remote_work_queue' = <<>>
             /\ ~remote_active']_vars
    /\ [][(remote_active /\ ~remote_active') =>
             /\ check_remote_work
             /\ ~check_remote_work'
             /\ remote_work_queue = <<>>]_vars

\* A drain moved a remote operation and left the flag set, the operation
\* was completed, and the next drain found the queue empty, marked it inactive
\* and cleared the flag.
C23_Witness ==
    /\ pc = "local"
    /\ ~check_remote_work
    /\ ~remote_active
    /\ cq_alarm = 0
    /\ \A t \in Threads : prod[t] = "idle"
    /\ \E o \in Ops : op[o].via = "remote" /\ op[o].done = 1
    /\ \A o \in Ops : op[o].via \in {"none", "remote"}

\* C24: a pass of process_local_queue runs exactly the operations that were
\* in the local queue when it began: the pass takes the whole local queue and
\* leaves it empty, it completes the taken operations one by one from the
\* front and no other queued operation, an operation a continuation pushes
\* meanwhile goes to the engine's local queue and not to the taken one, and
\* when the pass is over every taken operation has been run.
C24_SnapshotPass ==
    /\ [][(pc # "local" /\ pc' = "local") =>
             /\ local_work_queue' = <<>>
             /\ \E k \in 0..Len(pass_queue') :
                   /\ SubSeq(pass_queue', 1, k) = local_work_queue
                   /\ SubSeq(pass_queue', k + 1, Len(pass_queue'))
                         = (IF check_remote_work THEN remote_work_queue
                            ELSE <<>>)]_vars
    /\ [][pc = "local" =>
             \A o \in Ops :
                (op'[o].done > op[o].done) =>
                   /\ pass_queue # <<>>
                   /\ o = Head(pass_queue)
                   /\ \A q \in SeqToSet(local_work_queue') :
                         q \notin SeqToSet(pass_queue)]_vars
    /\ [][(pc = "local" /\ pc' = "local") =>
             \/ pass_queue' = pass_queue
             \/ pass_queue' = Tail(pass_queue)]_vars
    /\ [][(pc = "local" /\ pc' # "local") =>
             \A o \in SeqToSet(pass_queue) : op'[o].done >= 1]_vars

\* The local pass of do_one is over in this step of the behaviour.
LocalPassEnds == pc = "local" /\ pass_queue = <<>> /\ pc' # "local"

\* C25: after the local pass the completion queue is polled with a zero
\* timeout exactly when the local queue is not empty or the
\* check-remote-work flag is set, and it is waited on with the caller's
\* deadline only when neither holds; the loop never waits on the completion
\* queue while the local queue is not empty or the flag is set.
C25_PollZeroWhenPending ==
    /\ [][LocalPassEnds =>
             /\ (check_remote_work \/ local_work_queue # <<>>) =>
                   pc' = "poll_zero"
             /\ pc' = "poll_zero" =>
                   (check_remote_work \/ local_work_queue # <<>>)
             /\ pc' = "poll_wait" =>
                   (~check_remote_work /\ local_work_queue = <<>>)]_vars
    /\ [](pc = "poll_wait" =>
             (~check_remote_work /\ local_work_queue = <<>>))
    /\ [](pc = "poll_zero" =>
             (check_remote_work \/ local_work_queue # <<>>))

\* The loop polls with a zero timeout with the flag set and the local queue
\* empty, after a pass that moved an operation from the remote queue and ran
\* it.
C25_Witness ==
    /\ pc = "poll_zero"
    /\ check_remote_work
    /\ local_work_queue = <<>>
    /\ processed
    /\ \E o \in Ops : op[o].via = "remote" /\ op[o].done = 1

\* C26: when after the local pass no local or remote work is pending and the
\* stop predicate holds, do_one returns without looking at the completion
\* queue; when work is pending the completion queue is polled with a zero
\* timeout although the predicate holds.
C26_StopAfterLocalPass ==
    [][(LocalPassEnds /\ invoke = "YES" /\ stopped) =>
          IF check_remote_work \/ local_work_queue # <<>>
          THEN pc' = "poll_zero"
          ELSE /\ pc' \in {"top", "out"}
               /\ pc' = "top" <=> processed
               /\ cq_alarm' = cq_alarm
               /\ op' = op]_vars

\* The engine stopped during a pass that ran a moved remote operation: the
\* flag is still set and the completion queue is polled with a zero timeout.
C26_Witness ==
    /\ pc = "poll_zero"
    /\ invoke = "YES"
    /\ stopped
    /\ outstanding_work = 0
    /\ check_remote_work
    /\ local_work_queue = <<>>

\* Operation o is completed in this step of the behaviour.
CompletesNow(o) == op'[o].done > op[o].done

\* Operations are numbered in the order of their submission.  Two queued
\* operations went the same way when both were pushed to the local queue or
\* both were enqueued into the remote queue.
SameWay(o1, o2) ==
    /\ op[o1].via \in {"local", "remote"}
    /\ op[o1].via = op[o2].via

\* The operations of a queue that went the same way are in it in the order
\* of their submission.
InSubmissionOrder(q) ==
    \A i, j \in 1..Len(q) : (i < j /\ SameWay(q[i], q[j])) => q[i] < q[j]

Queued(o) ==
    Count(remote_work_queue, o) + Count(local_work_queue, o)
        + Count(pass_queue, o)

\* C28: an operation enters the remote queue only when it is submitted; it
\* leaves the remote queue only in a drain, which puts it into the local
\* queue in the same step, once; it never stands in two queues or twice in
\* one, whatever producers enqueue meanwhile; a remote queue that holds an
\* operation is active, and the queue is marked inactive only by a drain that
\* found it empty.
C28_TransferExactlyOnce ==
    /\ [][\A o \in Ops :
             /\ (Count(remote_work_queue, o) = 0
                    /\ Count(remote_work_queue', o) > 0) =>
                   /\ op[o].via = "none"
                   /\ op'[o].via = "remote"
             /\ (Count(remote_work_queue, o) > 0
                    /\ Count(remote_work_queue', o) = 0) =>
                   /\ check_remote_work
                   /\ Count(pass_queue' \o local_work_queue', o) = 1]_vars
    /\ [](\A o \in Ops :
             /\ Queued(o) <= 1
             /\ Queued(o) = 1 => op[o].done = 0
             /\ (op[o].via = "remote" /\ op[o].done = 0 /\ ~op[o].threw
                   /\ \A q \in Ops : ~op[q].threw) => Queued(o) = 1)
    /\ [](remote_work_queue # <<>> => remote_active)
    /\ [][(remote_active /\ ~remote_active') =>
             /\ check_remote_work
             /\ remote_work_queue = <<>>
             /\ remote_work_queue' = <<>>]_vars

\* One producer's operation has been transferred and is in the queue the
\* pass has taken while another producer's operation, enqueued meanwhile, is
\* in the remote queue.
C28_Witness ==
    \E o1, o2 \in Ops :
       /\ o1 < o2
       /\ op[o1].via = "remote" /\ op[o2].via = "remote"
       /\ op[o1].from \in Producers /\ op[o2].from \in Producers
       /\ op[o1].from # op[o2].from
       /\ pass_queue = <<o1>>
       /\ remote_work_queue = <<o2>>
       /\ remote_active
       /\ check_remote_work

\* C29: a run() that finds outstanding_work zero marks the engine stopped
\* and returns at once: no operation is completed, the work queues and the
\* completion queue are as before and the thread-local marker is not set;
\* the run loop is entered only with outstanding_work greater than zero, and
\* then the stopped flag is reset and the thread-local marker is the engine
\* before the first pass, which begins in a later step.
C29_RunEntry ==
    /\ [][(run_exit' = "nowork" /\ (run_exit # "nowork" \/ ~stopped)) =>
             /\ pc = "out" /\ pc' = "out"
             /\ outstanding_work = 0
             /\ stopped'
             /\ thread_local_grpc_context' = "null"
             /\ op' = op
             /\ cq_alarm' = cq_alarm
             /\ <<local_work_queue, pass_queue, remote_work_queue>>'
                   = <<local_work_queue, pass_queue, remote_work_queue>>
             /\ check_remote_work' = check_remote_work]_vars
    /\ [][(pc = "out" /\ pc' # "out" /\ ~shutdown') =>
             /\ outstanding_work > 0
             /\ ~stopped'
             /\ thread_local_grpc_context = "null"
             /\ thread_local_grpc_context' = "this"
             /\ pc' = "top"
             /\ run_exit' = "running"
             /\ op' = op
             /\ cq_alarm' = cq_alarm
             /\ <<local_work_queue, pass_queue, remote_work_queue>>'
                   = <<local_work_queue, pass_queue, remote_work_queue>>]_vars
    /\ [](pc = "top" /\ invoke = "YES" => thread_local_grpc_context = "this")

\* A run() has completed a remote and a local operation and returned; the
\* next run() found outstanding_work zero and left the engine stopped.
C29_Witness ==
    /\ run_exit = "nowork"
    /\ stopped
    /\ pc = "out"
    /\ outstanding_work = 0
    /\ thread_local_grpc_context = "null"
    /\ \E o1, o2 \in Ops :
          /\ op[o1].via = "remote" /\ op[o1].done = 1
          /\ op[o2].via = "local" /\ op[o2].done = 1

WakeOwed ==
    \/ check_remote_work
    \/ cq_alarm > 0
    \/ \E t \in Threads : prod[t] = "alarm"

\* C31: whenever the remote queue holds an operation a wake is owed or under
\* way, so the run loop does not stay waiting on the completion queue while
\* the remote queue holds an operation.
C31_NoLostWakeup ==
    /\ [](remote_work_queue # <<>> => WakeOwed)
    /\ ((pc = "poll_wait" /\ remote_work_queue # <<>>) ~> (pc # "poll_wait"))

\* The run loop waits on the completion queue with the flag clear while the
\* remote queue holds an operation whose producer has not fired the wake yet.
C31_Witness ==
    /\ pc = "poll_wait"
    /\ invoke = "YES"
    /\ remote_work_queue # <<>>
    /\ ~check_remote_work
    /\ cq_alarm = 0
    /\ \E t \in Producers : prod[t] = "alarm"

\* Number of threads that have activated the remote queue and not fired the
\* wake alarm yet.
RECURSIVE OwingWake(_)
OwingWake(ts) ==
    IF ts = {} THEN 0
    ELSE LET t == CHOOSE x \in ts : TRUE
         IN (IF prod[t] = "alarm" THEN 1 ELSE 0) + OwingWake(ts \ {t})

\* C32: at most one wake-tag event is pending in the completion queue; the
\* wake alarm is set only while none is pending, by the one thread that owes
\* the wake, and a thread owes a wake only while no other does and no
\* wake-tag event is pending, however the producers and the run loop
\* interleave.
C32_OneWakePending ==
    /\ [](cq_alarm + OwingWake(Threads) <= 1)
    /\ [][cq_alarm' > cq_alarm =>
             /\ cq_alarm = 0
             /\ cq_alarm' = 1
             /\ OwingWake(Threads) = 1
             /\ ~check_remote_work]_vars

\* Two producers have enqueued one operation each while the run loop waits on
\* the completion queue: one wake-tag event is pending and no wake is owed.
C32_Witness ==
    /\ pc = "poll_wait"
    /\ cq_alarm = 1
    /\ \A t \in Threads : prod[t] = "idle"
    /\ \E o1, o2 \in Ops :
          /\ remote_work_queue = <<o1, o2>>
          /\ op[o1].from \in Producers /\ op[o2].from \in Producers
          /\ op[o1].from # op[o2].from

\* The work started and not finished yet for the operations in os.
RECURSIVE WorkOf(_)
WorkOf(os) ==
    IF os = {} THEN 0
    ELSE LET o == CHOOSE x \in os : TRUE
         IN (op[o].started - op[o].fin) + WorkOf(os \ {o})

\* The work a guard holds.
GuardWork == IF guard = "held" THEN 1 ELSE 0

FaultInLocalPass ==
    /\ pc = "local"
    /\ pass_queue # <<>>
    /\ op'[Head(pass_queue)].threw
    /\ run_exit' = "fault"

\* C34: when a continuation faults during a local-queue pass, the operations
\* of the pass that were queued behind it are still queued in the engine
\* after the fault, once each, with their work outstanding, and no queued
\* operation is ever completed twice.
C34_FaultKeepsQueue ==
    /\ [][FaultInLocalPass =>
             /\ \A o \in SeqToSet(Tail(pass_queue)) :
                   /\ Count(local_work_queue', o) = 1
                   /\ op'[o].done = 0
             /\ outstanding_work' >= Len(Tail(pass_queue))]_vars
    /\ [](\A o \in Ops : op[o].via \in {"local", "remote"} => op[o].done <= 1)

\* run() is entered from outside the run loop in this step.
RunEntered == pc = "out" /\ pc' = "top" /\ invoke' = "YES"

\* run() is left in this step, by its return or by a fault.
RunLeft == run_exit = "running" /\ run_exit' \in {"returned", "fault"}

\* C35: the thread-local marker is the engine exactly while its run() is on
\* the stack: run() saves the marker it finds (no engine, or another engine
\* whose continuation called it), holds the saved value unchanged while it
\* runs, and sets the marker back to it when it is left by its return or by a
\* fault; a run() called again from a continuation of this engine leaves the
\* marker, the saved value and the stopped flag as they are, and while run()
\* is on the stack the stopped flag is never reset.
C35_MarkerScopedToRun ==
    /\ [][RunEntered =>
             /\ thread_local_grpc_context \in {"null", "other"}
             /\ old_context' = thread_local_grpc_context
             /\ thread_local_grpc_context' = "this"]_vars
    /\ [][(run_exit = "running" /\ run_exit' = "running") =>
             /\ thread_local_grpc_context' = "this"
             /\ old_context' = old_context
             /\ stopped => stopped']_vars
    /\ [][RunLeft =>
             /\ thread_local_grpc_context' = old_context
             /\ pc' = "out"
             /\ frames' = <<>>]_vars
    /\ [][(Len(frames') > Len(frames)) =>
             /\ thread_local_grpc_context = "this"
             /\ thread_local_grpc_context' = "this"
             /\ old_context' = old_context
             /\ stopped' = stopped
             /\ run_exit' = "running"]_vars
    /\ [](run_exit = "running" <=> thread_local_grpc_context = "this")
    /\ [](frames # <<>> =>
             /\ run_exit = "running"
             /\ ~stopped
             /\ outstanding_work >= Len(frames))

\* The thread is back in the continuation of the other engine: this engine's
\* run(), called from there, has returned after a continuation of a
\* completion-queue tag called run() again on the stopped engine, and the
\* marker is the other engine again.
C35_Witness ==
    /\ pc = "out"
    /\ run_exit = "returned"
    /\ old_context = "other"
    /\ thread_local_grpc_context = "other"
    /\ \E o \in Ops : op[o].reran /\ op[o].done = 1 /\ op[o].fin = 1

\* The steps whose events are ready in the completion queue.
ReadySteps == {o \in ReadyOps : op[o].via = "grpc"}

\* The run loop is at the completion queue.
AtCompletionQueue == pc \in {"poll_zero", "poll_wait"}

\* An event of the completion queue is handled in this step: the wake tag is
\* consumed or the tag of an operation is dispatched.
EventHandled ==
    \/ cq_alarm' < cq_alarm
    \/ \E o \in Ops : op[o].ev \in {"ok", "notok"} /\ CompletesNow(o)

RunReturns == run_exit = "running" /\ run_exit' = "returned"

\* C17 as stated: run() does not return while outstanding_work is greater
\* than zero.
C17_ReturnsOnlyWithoutWork ==
    [][RunReturns => outstanding_work' = 0]_vars

\* C17: run() returns only when the stopped flag is set; the flag is set in
\* the step in which outstanding_work reaches zero, or by shutdown; and once
\* the flag is set while run() is running, run() ends after finitely many
\* passes.  Work that another thread submits after the flag was set is left
\* outstanding when run() returns.
C17_ReturnsWhenStopped ==
    /\ [][RunReturns => stopped]_vars
    /\ [][(~stopped /\ stopped') => (outstanding_work' = 0 \/ shutdown')]_vars
    /\ ((run_exit = "running" /\ stopped) ~> (run_exit # "running"))

\* run() has returned and left work outstanding that was submitted after
\* outstanding_work had reached zero.
C17_Witness ==
    /\ run_exit = "returned"
    /\ stopped
    /\ outstanding_work > 0
    /\ \E o \in Ops : op[o].via = "remote" /\ op[o].done = 0
    /\ \E o \in Ops : op[o].done = 1

(* ----------------- claims about the context reference ------------------- *)
Holders(c) == {r \in Refs : ref[r].life = "alive" /\ ref[r].v.ptr = c}

\* C8: destroying a reference that holds a context (it is neither finished,
\* nor moved-from, nor default-constructed) calls TryCancel on that context
\* exactly once; destroying a reference that holds none calls TryCancel on no
\* context.
C8_DestroyCancels ==
    [][\A r \in Refs :
          (ref[r].life = "alive" /\ ref'[r].life = "dead") =>
              \A c \in Ctxs :
                  /\ try_cancel'[c].dtor =
                        try_cancel[c].dtor + (IF ref[r].v.ptr = c THEN 1 ELSE 0)
                  /\ try_cancel'[c].assign = try_cancel[c].assign
                  /\ try_cancel'[c].explicit = try_cancel[c].explicit]_vars

\* An unfinished reference was destroyed and its context cancelled by that.
C8_Witness ==
    /\ ref_last.kind = "destroy"
    /\ ref_last.ctx # NullCtx
    /\ ref[ref_last.dst].v.ptr = ref_last.ctx
    /\ try_cancel[ref_last.ctx].dtor = 1

\* C9: a context is held by at most one live reference; right after a move
\* construction or a move assignment from another object the source is null;
\* destructors cancel a context at most once.
C9_ExclusiveOwnership ==
    /\ \A c \in Ctxs : Cardinality(Holders(c)) <= 1
    /\ \A c \in Ctxs : try_cancel[c].dtor <= 1
    /\ (ref_last.kind \in {"move_construct", "move_assign"}
            /\ ref_last.dst # ref_last.src)
          => ref[ref_last.src].v.ptr = NullCtx

\* A context went from the object made for it to another object, and both
\* objects were destroyed: one TryCancel from the two destructors.
C9_Witness ==
    \E c \in Ctxs : \E r, s \in Refs :
        /\ r # s
        /\ ref[r].life = "dead" /\ ref[s].life = "dead"
        /\ ref[r].made = c /\ ref[r].v.ptr = NullCtx
        /\ ref[s].v.ptr = c
        /\ try_cancel[c].dtor = 1

\* C10: a move assignment from another object calls TryCancel once on the
\* context the target held (none if it held none) and on no other, the target
\* then holds what the source held, untouched by the cancel, and the source is
\* null; a self-assignment cancels nothing and changes no object.
C10_MoveAssignCancelsOld ==
    [][\A r, s \in Refs :
          (ref_last'.kind = "move_assign" /\ ref_last'.dst = r
              /\ ref_last'.src = s) =>
              IF r = s
              THEN ref' = ref /\ try_cancel' = try_cancel
              ELSE /\ \A c \in Ctxs :
                        /\ try_cancel'[c].assign =
                              try_cancel[c].assign
                                  + (IF ref[r].v.ptr = c THEN 1 ELSE 0)
                        /\ try_cancel'[c].dtor = try_cancel[c].dtor
                        /\ try_cancel'[c].explicit = try_cancel[c].explicit
                   /\ ref'[r].v = ref[s].v
                   /\ ref'[s].v.ptr = NullCtx]_vars

\* An unfinished call was assigned a new, unfinished one: the old context is
\* cancelled, the new one is held and was never cancelled.
C10_Witness ==
    /\ ref_last.kind = "move_assign"
    /\ ref_last.dst # ref_last.src
    /\ ref_last.ctx # NullCtx
    /\ try_cancel[ref_last.ctx].assign = 1
    /\ ref[ref_last.dst].v.ptr \notin {NullCtx, ref_last.ctx}
    /\ TotalCancels(ref[ref_last.dst].v.ptr) = 0

(* ---------------------- claims about the client call -------------------- *)
\* C3: on a call that is finished, no step issues a Finish step and none
\* changes status_code, and a finish() returns whether the stored status is OK,
\* which is what every finish() before it returned; this holds for a call
\* that ended OK and for one that ended with a failure such as CANCELLED.
C3_FinishIdempotent ==
    [][(rpc.shape # "none" /\ rpc.client_context.ptr = NullCtx) =>
          /\ wire'.finish_steps = wire.finish_steps
          /\ rpc'.status_code = rpc.status_code
          /\ Len(finish_log') > Len(finish_log) =>
                /\ finish_log'[Len(finish_log')] = (rpc.status_code = "OK")
                /\ finish_log # <<>> =>
                      finish_log'[Len(finish_log')] = finish_log[1]]_vars

\* finish() was called twice on a cancelled call: not-ok both times, one
\* Finish step.
C3_Witness ==
    /\ Len(finish_log) >= 2
    /\ finish_log[1] = FALSE /\ finish_log[2] = FALSE
    /\ rpc.status_code = "CANCELLED"
    /\ rpc.client_context.ptr = NullCtx
    /\ wire.finish_steps = 1

\* C4: when a caller is resumed with not-ok from request, read, write,
\* write-last, writes_done or read_initial_metadata, the call is finished,
\* exactly one Finish step was issued, and status_code is the final status of
\* the call as the transport decided it; a request that failed never leaves a
\* status a server sets.
C4_AutoFinishOnError ==
    \A s \in Roles :
        (call_obs[s].name \in AutoFinishSteps /\ ~call_obs[s].ok) =>
            /\ call_obs[s].finished
            /\ call_obs[s].finish_steps = 1
            /\ call_obs[s].final # "none"
            /\ call_obs[s].status = call_obs[s].final
            /\ call_obs[s].name = "request" =>
                  call_obs[s].status \in {"CANCELLED", "DEADLINE_EXCEEDED",
                                          "UNAVAILABLE"}

\* A read on a cancelled call resumed its caller with not-ok.
C4_Witness ==
    /\ call_obs["rd"].name = "read"
    /\ ~call_obs["rd"].ok
    /\ call_obs["rd"].finished
    /\ call_obs["rd"].status = "CANCELLED"
    /\ wire.finish_steps = 1

\* The step of this name was started in this step of the behaviour.
StartedNow(name) ==
    /\ rpc'.started = rpc.started + 1
    /\ slot'[RoleOf(name)].id = rpc'.started
    /\ slot'[RoleOf(name)].step = name

\* C11: a writes_done started on an unfinished call whose writes-done bit is
\* set (by an earlier writes_done or by a write with the last-message flag)
\* resumes its caller with true in the same step and issues no WritesDone
\* step; the bit of an unfinished call stays set as long as the call is
\* unfinished.
C11_WritesDoneIdempotent ==
    [][/\ (StartedNow("writes_done") /\ rpc.client_context.ptr # NullCtx
              /\ rpc.client_context.bit0) =>
              /\ wire'.writes_done_steps = wire.writes_done_steps
              /\ slot'["wr"].phase = "idle"
              /\ slot'["wr"].resumes = 1
              /\ call_obs'["wr"].name = "writes_done"
              /\ call_obs'["wr"].ok
       /\ (rpc.client_context.bit0 /\ rpc'.client_context.ptr # NullCtx) =>
              rpc'.client_context.bit0]_vars

\* writes_done was called twice on an unfinished call: true the second time,
\* one WritesDone step.
C11_Witness ==
    /\ rpc.writes_done_calls = 2
    /\ rpc.client_context.ptr # NullCtx
    /\ rpc.client_context.bit0
    /\ slot["wr"].step = "writes_done" /\ slot["wr"].phase = "idle"
    /\ call_obs["wr"].ok
    /\ wire.writes_done_steps = 1

\* C12: once a write with the last-message flag completed ok, no WritesDone
\* step is issued any more, by writes_done or by finish; on a client-streaming
\* call that the server then finished OK, status_code reads OK and every
\* finish() yields true.
C12_WriteLastCoalesces ==
    /\ [][rpc.wrote_last =>
             wire'.writes_done_steps = wire.writes_done_steps]_vars
    /\ []((rpc.wrote_last /\ rpc.shape = "client_streaming"
              /\ wire.final = "OK") =>
             /\ rpc.status_code = "OK"
             /\ \A i \in 1..Len(finish_log) : finish_log[i])

\* A client-streaming call wrote its last message, the server finished OK and
\* finish() was called twice.
C12_Witness ==
    /\ rpc.wrote_last
    /\ rpc.shape = "client_streaming"
    /\ wire.writes_done_steps = 0
    /\ Len(finish_log) = 2
    /\ finish_log[1] /\ finish_log[2]
    /\ rpc.status_code = "OK"
    /\ rpc.client_context.ptr = NullCtx

CompletedNow(s) == slot[s].phase = "wire" /\ slot[s].ev = "none"
                      /\ slot'[s].ev # "none"

\* C14: a read completes ok only when a message of the stream is there, so a
\* read that completes after the last message was taken completes not-ok; a
\* read started on the call once it is finished resumes its caller with not-ok
\* in the same step; and a caller resumed with not-ok from a read on a call
\* the server finished with OK finds the call finished with status_code OK.
C14_ReadPastEnd ==
    /\ [][/\ (CompletedNow("rd") /\ slot["rd"].step = "read"
                 /\ wire.msgs = 0) => slot'["rd"].ev = "notok"
          /\ (StartedNow("read") /\ rpc.client_context.ptr = NullCtx) =>
                 /\ slot'["rd"].phase = "idle"
                 /\ slot'["rd"].resumes = 1
                 /\ ~call_obs'["rd"].ok
                 /\ wire' = wire]_vars
    /\ [](call_obs["rd"].name = "read" /\ ~call_obs["rd"].ok
             /\ call_obs["rd"].final = "OK" =>
             /\ call_obs["rd"].finished
             /\ call_obs["rd"].status = "OK")

\* The one message of a stream was read, the server finished OK, a read failed
\* and finished the call, and a later read was answered not-ok at once.
C14_Witness ==
    /\ rpc.shape = "server_streaming"
    /\ wire.sent = 1 /\ wire.msgs = 0 /\ wire.final = "OK"
    /\ finish_log = <<>>
    /\ slot["rd"].step = "read" /\ slot["rd"].phase = "idle"
    /\ slot["rd"].ev = "none"
    /\ ~call_obs["rd"].ok
    /\ call_obs["rd"].status = "OK"
    /\ rpc.client_context.ptr = NullCtx

\* C15: on a call that ended CANCELLED a read that completes, completes
\* not-ok; every finish() yields false, and once the call is finished
\* status_code is CANCELLED; a finish() on the finished call leaves the
\* transport as it is: no Finish step and no TryCancel.
C15_CancelMidStream ==
    /\ [][/\ (CompletedNow("rd") /\ slot["rd"].step = "read"
                 /\ wire.final = "CANCELLED") => slot'["rd"].ev = "notok"
          /\ (wire.final = "CANCELLED" /\ rpc.client_context.ptr = NullCtx
                 /\ StartedNow("finish")) =>
                 /\ wire' = wire
                 /\ finish_log' = Append(finish_log, FALSE)
                 /\ rpc'.status_code = "CANCELLED"]_vars
    /\ [](wire.final = "CANCELLED" =>
             /\ \A i \in 1..Len(finish_log) : ~finish_log[i]
             /\ (rpc.shape # "none" /\ rpc.client_context.ptr = NullCtx) =>
                   rpc.status_code = "CANCELLED")

\* The call was cancelled while a read was in flight; the read failed and
\* finish() was called twice: false and CANCELLED, one Finish step, one
\* TryCancel.
C15_Witness ==
    /\ wire.cancel_at = "read"
    /\ wire.final = "CANCELLED"
    /\ wire.cancels = 1
    /\ wire.finish_steps = 1
    /\ finish_log = <<FALSE, FALSE>>
    /\ rpc.status_code = "CANCELLED"
    /\ rpc.client_context.ptr = NullCtx

\* C16: every finish() of a call yields whether status_code is OK, and the
\* call is finished then; when the server finished the call, status_code is
\* the server's status, so a unary call answered OK yields true with the
\* response the server gave, and a call the server finished with another
\* status yields false with exactly that status, at every finish().
C16_FinishResultIsStatusOk ==
    finish_log # <<>> =>
        /\ rpc.client_context.ptr = NullCtx
        /\ \A i \in 1..Len(finish_log) :
              finish_log[i] = (rpc.status_code = "OK")
        /\ wire.final \in ServerStatuses => rpc.status_code = wire.final
        /\ (rpc.shape = "unary" /\ wire.final = "OK") =>
              /\ wire.payload \in Payloads
              /\ rpc.response = wire.payload

\* A unary call was answered OK with a payload and finish() was called twice.
C16_Witness ==
    /\ rpc.shape = "unary"
    /\ wire.final = "OK"
    /\ wire.payload = NumPayloads
    /\ rpc.response = NumPayloads
    /\ finish_log = <<TRUE, TRUE>>
    /\ rpc.status_code = "OK"

\* The steps the per-operation cancellation of a client call is about.
CancellableSteps == {"read_initial_metadata", "read", "write_last", "finish"}

\* The step role s has in its slot was in flight when cancellation took
\* effect on the call.
InFlightAtCancel(s) ==
    /\ wire.final = "CANCELLED"
    /\ wire.cancel_ids[s] # 0
    /\ slot[s].id = wire.cancel_ids[s]
    /\ slot[s].step \in CancellableSteps

C22_CancelNotSynchronous ==
    /\ [][rpc'.cancel_calls > rpc.cancel_calls =>
             /\ rpc'.client_context = rpc.client_context
             /\ rpc'.status_code = rpc.status_code
             /\ wire'.cancels = wire.cancels
                    + (IF rpc.client_context.ptr # NullCtx THEN 1 ELSE 0)
             /\ wire'.inflight = wire.inflight
             /\ wire'.finish_steps = wire.finish_steps
             /\ slot' = slot
             /\ call_obs' = call_obs
             /\ finish_log' = finish_log]_vars
    /\ [][\A s \in Roles :
             (slot[s].phase # "idle" /\ slot'[s].resumes > slot[s].resumes) =>
                /\ wire'.cancels = wire.cancels
                /\ rpc'.cancel_calls = rpc.cancel_calls
                /\ \/ CompletedNow(s)
                   \/ /\ Waiting(s)
                      /\ rpc.client_context.ptr # NullCtx
                      /\ rpc'.client_context.ptr = NullCtx]_vars

\* cancel() was called on a bidirectional call while a read and a write were
\* in flight: the call is cancelled on the transport, both steps are still
\* in flight, and the call is neither finished nor marked writes-done.
C22_Witness ==
    /\ rpc.cancel_calls = 1
    /\ wire.cancels = 1
    /\ wire.final = "CANCELLED"
    /\ slot["rd"].step = "read" /\ slot["rd"].phase = "wire"
    /\ slot["wr"].step = "write" /\ slot["wr"].phase = "wire"
    /\ slot["rd"].resumes = 0 /\ slot["wr"].resumes = 0
    /\ rpc.client_context.ptr # NullCtx
    /\ ~rpc.client_context.bit0

(* ------------- claims about the finished state of a call ---------------- *)
\* The operations of RPCClientContextBase on its reference: set_writes_done,
\* cancel, set_finished, and the destruction of the object.
CallContextOps == {"set_bit", "cancel", "clear", "destroy"}

\* Reference r is acted on in this step by one of these operations.
ActsOn(r) ==
    /\ ref[r].life = "alive"
    /\ ref_last'.dst = r
    /\ ref_last'.kind \in CallContextOps
    /\ <<ref, try_cancel>>' # <<ref, try_cancel>> \/ ref_last' # ref_last

\* C37: a finished call stays finished: on a reference that is null
\* set_writes_done, cancel, set_finished and the destructor leave it null
\* and call TryCancel on no context; set_writes_done on a call that is not
\* finished sets the writes-done bit and leaves the call unfinished with the
\* same context, without a TryCancel.
C37_FinishedMonotonic ==
    [][\A r \in Refs :
          ActsOn(r) =>
             /\ is_finished(ref[r].v) =>
                   /\ is_finished(ref'[r].v)
                   /\ get(ref'[r].v) = NullCtx
                   /\ try_cancel' = try_cancel
                   /\ ref_last'.ctx = NullCtx
             /\ (~is_finished(ref[r].v) /\ ref_last'.kind = "set_bit") =>
                   /\ ~is_finished(ref'[r].v)
                   /\ get(ref'[r].v) = get(ref[r].v)
                   /\ is_writes_done(ref'[r].v)
                   /\ try_cancel' = try_cancel]_vars

\* A reference made from a context was marked finished and after that
\* set_writes_done was called on it: it is null with the bit set, and
\* TryCancel was never called on its context.
C37_Witness ==
    \E r \in Refs :
       /\ ref[r].life = "alive"
       /\ ref[r].made # NullCtx
       /\ is_finished(ref[r].v)
       /\ is_writes_done(ref[r].v)
       /\ ref_last.kind = "set_bit" /\ ref_last.dst = r
       /\ TotalCancels(ref[r].made) = 0

(* ------------- claims about a read and a write that both fail ----------- *)
\* The role other than s.
OtherRole(s) == CHOOSE t \in Roles : t # s

\* The step of role s completes not-ok in this step of the behaviour while
\* the step of the other role is in flight or has failed and waits for the
\* Finish step.
FailsBesideOther(s) ==
    /\ CompletedNow(s)
    /\ slot'[s].ev = "notok"
    /\ slot[OtherRole(s)].phase \in {"wire", "autofinish"}
    /\ slot[OtherRole(s)].step \in AutoFinishSteps

\* The read and the write of a bidirectional call have both completed not-ok
\* and both callers were resumed.
BothFailed ==
    /\ rpc.shape = "bidi"
    /\ slot["rd"].step = "read" /\ slot["wr"].step \in {"write", "write_last"}
    /\ \A s \in Roles : slot[s].ev = "notok" /\ slot[s].phase = "idle"

InFlightHandlers ==
    {caller[t].local : t \in {u \in Completers : caller[u].pc = "local"}}
       \cup {posted[i] : i \in 1..Len(posted)}

\* C39: a handler is invoked only after it was moved out of its storage and
\* the storage was deallocated: a handler that a thread holds in its local or
\* that sits in a posted function has its storage freed, no handler ever ran
\* with its storage allocated, complete invokes the handler inside the call,
\* and post_complete only posts it: the executor invokes it later.
C39_DeallocatedBeforeInvoked ==
    /\ [](\A h \in InFlightHandlers :
             HasHandler(h) => allocation[h].state = "freed")
    /\ [](\A h \in Handlers :
             invocation[h].count > 0 =>
                /\ ~invocation[h].live
                /\ allocation[h].state = "freed")
    /\ [][\A t \in Completers :
             (caller[t].pc = "local" /\ caller'[t].pc # "local") =>
                LET h == caller[t].local
                IN IF caller[t].fn = "complete"
                   THEN /\ invocation'[h].count = invocation[h].count + 1
                        /\ "inline" \in invocation'[h].how
                        /\ posted' = posted
                   ELSE /\ invocation' = invocation
                        /\ posted' = Append(posted, h)]_vars
    /\ [][invocation' # invocation =>
             \/ \E t \in Completers : caller[t].pc = "local"
                                         /\ caller[t].fn = "complete"
                                         /\ caller'[t].pc # "local"
             \/ posted # <<>> /\ posted' = Tail(posted)]_vars

\* The first handler was completed with post_complete and run by the executor,
\* the second with complete; both ran once, after their storage was freed.
C39_Witness ==
    /\ invocation[1].count = 1 /\ invocation[1].how = {"posted"}
    /\ invocation[2].count = 1 /\ invocation[2].how = {"inline"}
    /\ \A h \in Handlers : allocation[h].state = "freed" /\ ~invocation[h].live

\* The places that hold a pointer to the storage of handler h.
HoldersOf(h) ==
    {<<t, f>> \in Completers \X {"data", "held"} :
        \/ f = "data" /\ caller[t].pc = "called" /\ caller[t].data = h
        \/ f = "held" /\ caller[t].pc = "released" /\ caller[t].held = h}
       \cup (IF completion_handler = h THEN {<<"object", "stored">>} ELSE {})

\* Thread t makes the exchange of complete, post_complete or release on the
\* atomic object in this step of the behaviour.
ExchangesAtomic(t) ==
    /\ caller[t].pc = "idle"
    /\ caller'[t].pc \in {"called", "released"}

\* Thread t makes the exchange of complete or post_complete on the object it
\* got from release.
ExchangesReleased(t) ==
    /\ caller[t].pc = "released"
    /\ caller'[t].pc = "called"

\* C40: a stored handler is consumed at most once.  The exchange of complete,
\* post_complete and release leaves the object empty and gives the old
\* pointer to the caller alone; a destructor that runs on an object after
\* that finds it empty, and its assertion fails only on an object that still
\* stores a handler nobody has taken.  No handler is invoked twice and no
\* storage is deallocated twice, however two threads interleave their calls
\* on the atomic object: at most one place holds the pointer to a storage.
C40_ConsumedAtMostOnce ==
    /\ [](\A h \in Handlers :
             /\ invocation[h].count <= 1
             /\ allocation[h].deallocations <= 1
             /\ Cardinality(HoldersOf(h)) <= 1
             /\ allocation[h].state = "freed" => HoldersOf(h) = {})
    /\ [](teh = "assertion_failed" =>
             /\ HasHandler(completion_handler)
             /\ allocation[completion_handler].state = "live"
             /\ invocation[completion_handler].count = 0)
    /\ [][\A t \in Completers :
             /\ ExchangesAtomic(t) =>
                   /\ ~HasHandler(completion_handler')
                   /\ completion_handler \in
                         {caller'[t].data, caller'[t].held}
             /\ ExchangesReleased(t) =>
                   /\ ~HasHandler(caller'[t].held)
                   /\ caller'[t].data = caller[t].held
             /\ caller'[t].assertion # caller[t].assertion =>
                   caller'[t].assertion = AssertEmpty(caller[t].held)]_vars
    /\ [][teh' # teh =>
             teh' = IF HasHandler(completion_handler)
                    THEN "assertion_failed" ELSE "destroyed"]_vars

\* Two threads race to complete the atomic object: one has got the handler
\* from the exchange and has not deallocated it yet, the other has called
\* complete after that, got null and is past the exchange.
C40_Witness ==
    \E t, u \in Completers :
       /\ t # u
       /\ caller[t].pc = "called" /\ caller[t].obj = "atomic"
       /\ HasHandler(caller[t].data)
       /\ allocation[caller[t].data].state = "live"
       /\ caller[u].obj = "atomic" /\ caller[u].calls = 1
       /\ caller[u].pc \in {"crashed", "local"}
       /\ ~HasHandler(caller[u].data)
       /\ ~HasHandler(completion_handler)

====
